---- MODULE Spec2Model ----
(***************************************************************************)
(* Model of hawk's profiling session controllers:                          *)
(*   - PyInstrumentProfiler (src/hawk/profiling/cpu/pyinstrument.py)       *)
(*   - TracemallocProfiler and IntervalProfileProxy                        *)
(*     (src/hawk/profiling/mem/tracemalloc.py)                             *)
(*   - TracemallocProfiler of src/hawk/profiling/memory.py                 *)
(* and of what serves a profiled request around them: the ProfileHandler   *)
(* of each profiler, its options, its renderers, and format_bytes; and of  *)
(* the ZContainer component of the status pages                            *)
(* (src/hawk/zpages/components/container.py).                              *)
(* Callers are threads of one Python process.  One action is one           *)
(* statement of a method as executed by one thread; the interpreter may    *)
(* switch threads between any two statements.  The stdlib tracemalloc      *)
(* module and the pyinstrument library are modelled by their documented    *)
(* behaviour at the call sites.                                            *)
(***************************************************************************)
EXTENDS Integers, Sequences, FiniteSets, TLC

\* ---------------------------------------------------------------- bounds
MaxCalls    == 3 \* top-level calls issued in one behaviour of concurrent callers
MaxSeqCalls == 5 \* top-level calls issued in one behaviour of a single caller
MaxFrames == 2   \* ProfileOptions.frames ranges over 1..MaxFrames
MaxHeap   == 1   \* traced heap usage ranges over 0..MaxHeap
MaxTraces == 1   \* opaque contents of a tracemalloc.Snapshot: 0..MaxTraces
MaxDigits == 9   \* format_bytes is given magnitudes of 1..MaxDigits digits of base 1024
MaxBytes  == 2   \* heap usage of the profiles given to a renderer: 0..MaxBytes
MaxStats  == 2   \* groups of traces of the snapshots given to a renderer: 0..MaxStats
MaxCount  == 3   \* RendererOptions.count ranges over -MaxCount..MaxCount
MaxReqCalls == 3 \* top-level calls issued in one behaviour of a caller that serves requests
MaxChildren == 3 \* components added to one ZContainer

Threads == {"t1", "t2"}

None == 0        \* the value None of _curr_profiler and of profiler locals

VARIABLES
    scenario,         \* what this behaviour exercises: the calling threads, the
                      \* controllers they call ("cpu", "mem"), the number of
                      \* calls they issue at most, the ranges of the measurements,
                      \* whether pyinstrument's own start() and stop() may raise
    boot,             \* the state of tracemalloc when the controller was imported
    calls,            \* number of top-level calls issued so far
    profiler_lock,    \* PyInstrumentProfiler._profiler_lock: "free" or its holder
    curr_profiler,    \* PyInstrumentProfiler._curr_profiler: None or a profiler id
    running,          \* ids of the pyinstrument.Profiler objects that are running
    tracing,          \* tracemalloc.is_tracing()
    traceback_limit,  \* tracemalloc.get_traceback_limit()
    enabled_in_env,   \* TracemallocProfiler._tracemalloc_enabled_in_env
    origin,           \* who switched the current tracing on: "none", "external", "controller"
    thr,              \* per thread: the frame of the call it executes
    hnd,              \* per thread: the ProfileHandler of the request it serves
    rnd,              \* one evaluation of get_renderer(format).render(profile, opt)
    fmt,              \* one evaluation of format_bytes(value)
    zc                \* one ZContainer, what was added to it and what it rendered

\* the variables the session controllers never touch
aux == <<hnd, rnd, fmt, zc>>

vars == <<scenario, boot, calls, profiler_lock, curr_profiler, running, tracing,
          traceback_limit, enabled_in_env, origin, thr, hnd, rnd, fmt, zc>>

\* ---------------------------------------------------------------- values
\* PointInTimeProfile (tracemalloc.py:105-108); NoProfile stands for None
NoProfile == [heap_usage_bytes |-> -1, snapshot |-> -1]

PointInTimeProfile(heap_usage, snapshot) ==
    [heap_usage_bytes |-> heap_usage, snapshot |-> snapshot]

\* IntervalProfile (tracemalloc.py:70-75); NoInterval stands for None
NoInterval ==
    [start_heap_usage_bytes |-> -1, start_snapshot |-> -1,
     stop_heap_usage_bytes |-> -1, stop_snapshot |-> -1]

\* ProfileOptions of the memory profiler (tracemalloc.py:53-56)
MemOptions == [gc : BOOLEAN, frames : 1..MaxFrames]

\* the outcome of a call: nothing yet, a returned value, or a raised exception
NoOutcome == [status |-> "none", exc |-> "", profiler |-> None, profile |-> NoProfile]

Returned(profiler, profile) ==
    [status |-> "return", exc |-> "", profiler |-> profiler, profile |-> profile]

Raised(exc) ==
    [status |-> "raise", exc |-> exc, profiler |-> None, profile |-> NoProfile]

\* messages of ProfilingAlreadyStarted (tracemalloc.py:157-161, pyinstrument.py:89)
AlreadyStarted    == "ProfilingAlreadyStarted: Profiler is already started"
AlreadyStartedEnv ==
    "ProfilingAlreadyStarted: Profiler is already started via environment variable PYTHONTRACEMALLOC"
NotStarted        == "ProfilingNotStarted: Profiler is not started yet"
StopProfileNotSet == "RuntimeError: Stop profile is not set"
NotTracing        == "RuntimeError: the tracemalloc module must be tracing memory allocations to take a snapshot"
WorkloadError     == "WorkloadError"
NativeError       == "RuntimeError: raised by pyinstrument.Profiler"

\* ---------------------------------------------------------------- IntervalProfileProxy
NoProxy ==
    [made |-> FALSE, start_profile |-> NoProfile, stop_profile |-> NoProfile,
     interval_profile |-> NoInterval]

\* IntervalProfileProxy.__init__ (tracemalloc.py:79-83)
ProxyInit(start_profile) ==
    [made |-> TRUE, start_profile |-> start_profile, stop_profile |-> NoProfile,
     interval_profile |-> NoInterval]

\* IntervalProfileProxy.stop (tracemalloc.py:101-102)
ProxyStop(proxy, stop_profile) == [proxy EXCEPT !.stop_profile = stop_profile]

\* the guard of get(): "if self.stop_profile is None" (tracemalloc.py:86)
ProxyStopMissing(proxy) == proxy.stop_profile = NoProfile

\* get() with the start and the stop profile taken for each other
MakeIntervalProfileSwapped(proxy) ==
    [start_heap_usage_bytes |-> proxy.stop_profile.heap_usage_bytes,
     start_snapshot         |-> proxy.stop_profile.snapshot,
     stop_heap_usage_bytes  |-> proxy.start_profile.heap_usage_bytes,
     stop_snapshot          |-> proxy.start_profile.snapshot]

\* the IntervalProfile that get() builds (tracemalloc.py:92-97)
MakeIntervalProfile(proxy) ==
    [start_heap_usage_bytes |-> proxy.start_profile.heap_usage_bytes,
     start_snapshot         |-> proxy.start_profile.snapshot,
     stop_heap_usage_bytes  |-> proxy.stop_profile.heap_usage_bytes,
     stop_snapshot          |-> proxy.stop_profile.snapshot]

\* the value get() returns when it does not raise (tracemalloc.py:89-99)
ProxyGetValue(proxy) ==
    IF proxy.interval_profile # NoInterval
    THEN proxy.interval_profile
    ELSE MakeIntervalProfile(proxy)

\* what a get() call left in the caller's hands
\* (stopped: whether the proxy's stop() had been called before the get())
NoGot == [status |-> "none", exc |-> "", interval |-> NoInterval, stopped |-> FALSE]

\* ---------------------------------------------------------------- frames
\* The frame of the call a thread executes.  op is the method called by the
\* thread, phase says which statement of profile() the running start /
\* snapshot / stop belongs to ("plain": it was called directly), pc is the
\* next statement.  entry_*, gc_ran, stale, events, given_* record history.
IdleFrame ==
    [op |-> "none", phase |-> "plain", pc |-> "idle",
     opt |-> [gc |-> FALSE, frames |-> 1],
     profiler |-> None, heap_usage |-> 0,
     profile_proxy |-> NoProxy, pending |-> "", out |-> NoOutcome, got |-> NoGot,
     entry_active |-> FALSE, entry_origin |-> "none",
     gc_ran |-> FALSE, stale |-> FALSE, events |-> <<>>,
     given_start |-> NoProfile, given_stop |-> NoProfile]

\* a thread enters a method: a fresh frame
Begin(op, phase, pc, opt, active, orig) ==
    [IdleFrame EXCEPT !.op = op, !.phase = phase, !.pc = pc, !.opt = opt,
                      !.entry_active = active, !.entry_origin = orig]

\* an exception leaves the method: no statement of the controllers catches one,
\* so it reaches the caller (the locals of the frame die)
Raise(f, exc) ==
    [f EXCEPT !.pc = "done", !.out = Raised(exc), !.profiler = None, !.heap_usage = 0,
              !.opt = IdleFrame.opt]

\* the method returns to the caller
Return(f, profiler, profile) ==
    [f EXCEPT !.pc = "done", !.out = Returned(profiler, profile),
              !.profiler = None, !.heap_usage = 0, !.opt = IdleFrame.opt]

Free(t) == thr[t].pc \in {"idle", "done"}

CanCall(t, kind) ==
    /\ t \in scenario.callers
    /\ kind \in scenario.kinds
    /\ Free(t)
    /\ calls < scenario.call_budget

\* ---------------------------------------------------------------- format_bytes
\* An int of Python has no width.  A value is written with its sign and its
\* magnitude in base 1024, least significant digit first, no leading zero
\* digit (zero is the empty sequence), so that every unit of format_bytes is
\* reached.
Base      == 1024  \* the divisor and the threshold of format_bytes
DigitBits == 10    \* 1024 = 2^10
DoubleBits   == 53    \* float(value): the significand of a float has 53 bits
DoubleMaxExp == 1024  \* float(value): a float is below 2^1024

RECURSIVE Pow2(_)
Pow2(n) == IF n = 0 THEN 1 ELSE 2 * Pow2(n - 1)

RECURSIVE BitLen(_)
BitLen(d) == IF d = 0 THEN 0 ELSE 1 + BitLen(d \div 2)

\* int.bit_length of a magnitude
BitLength(mag) ==
    IF mag = <<>> THEN 0 ELSE DigitBits * (Len(mag) - 1) + BitLen(mag[Len(mag)])

RECURSIVE Digits(_)
Digits(n) == IF n = 0 THEN <<>> ELSE <<n % Base>> \o Digits(n \div Base)

\* a small int as a value
FromInt(v) == [neg |-> v < 0, mag |-> Digits(IF v < 0 THEN -v ELSE v)]

RECURSIVE Normal(_)
Normal(mag) ==
    IF mag # <<>> /\ mag[Len(mag)] = 0
    THEN Normal(SubSeq(mag, 1, Len(mag) - 1))
    ELSE mag

\* mag + amount * 1024^(pos - 1)
RECURSIVE AddAt(_, _, _)
AddAt(mag, pos, amount) ==
    IF amount = 0 THEN mag
    ELSE IF pos > Len(mag) THEN Append(mag, amount)
    ELSE AddAt([mag EXCEPT ![pos] = (@ + amount) % Base], pos + 1,
               (mag[pos] + amount) \div Base)

\* the bits below bit b of a magnitude are all zero
LowZero(mag, b) ==
    /\ \A i \in 1..(b \div DigitBits) : mag[i] = 0
    /\ mag[b \div DigitBits + 1] % Pow2(b % DigitBits) = 0

\* float(value) (tracemalloc.py:33): the nearest float, ties to the even
\* significand; d is the number of bits that do not fit, bit 0 the least
\* significant; every float of 2^53 or more is an integer
ToDouble(mag) ==
    LET d      == BitLength(mag) - DoubleBits
        bit(b) == (mag[b \div DigitBits + 1] \div Pow2(b % DigitBits)) % 2
        kept   == [i \in 1..Len(mag) |->
                      IF i <= d \div DigitBits THEN 0
                      ELSE IF i = d \div DigitBits + 1
                      THEN mag[i] - (mag[i] % Pow2(d % DigitBits))
                      ELSE mag[i]]
    IN  IF d <= 0 THEN mag
        ELSE IF bit(d - 1) = 1 /\ (~LowZero(mag, d - 1) \/ bit(d) = 1)
             THEN AddAt(kept, d \div DigitBits + 1, Pow2(d % DigitBits))
             ELSE kept

\* float(value) raises OverflowError when the nearest float would be 2^1024
InDoubleRange(mag) == BitLength(ToDouble(mag)) <= DoubleMaxExp

\* the text format_bytes returns: [-]whole.tenth unit
NoText ==
    [status |-> "none", exc |-> "", neg |-> FALSE, whole |-> <<>>, tenth |-> 0, unit |-> ""]

\* ds * m + carry, least significant digit first, one digit longer than ds
RECURSIVE MulSmall(_, _, _)
MulSmall(ds, m, carry) ==
    IF ds = <<>> THEN <<carry>>
    ELSE <<(Head(ds) * m + carry) % Base>>
             \o MulSmall(Tail(ds), m, (Head(ds) * m + carry) \div Base)

\* f"{formatted_value:3.1f} {unit}" (tracemalloc.py:37, 41): x is mag / 1024^shift,
\* printed with one decimal, rounded to the nearest, ties to the even decimal
Text(x, unit) ==
    LET whole  == Normal(SubSeq(x.mag, x.shift + 1, Len(x.mag)))
        scaled == MulSmall(SubSeq(x.mag, 1, x.shift), 10, 0)
        tenth  == scaled[Len(scaled)]
        rest   == SubSeq(scaled, 1, Len(scaled) - 1)
        top    == IF rest = <<>> THEN 0 ELSE rest[Len(rest)]
        tie    == top = Base \div 2 /\ LowZero(rest, DigitBits * (Len(rest) - 1))
        up     == \/ top > Base \div 2
                  \/ top = Base \div 2 /\ ~tie
                  \/ tie /\ tenth % 2 = 1
        t      == IF up THEN tenth + 1 ELSE tenth
    IN  [status |-> "return", exc |-> "", neg |-> x.neg,
         whole |-> IF t = 10 THEN AddAt(whole, 1, 1) ELSE whole,
         tenth |-> IF t = 10 THEN 0 ELSE t,
         unit |-> unit]

\* the units the loop of format_bytes goes through (tracemalloc.py:35)
Units == <<"B", "KB", "MB", "GB", "TB", "PB", "EB">>

\* abs(formatted_value) <= 1024.0
AbsNotAboveBase(x) ==
    \/ Len(x.mag) - x.shift <= 1
    \/ /\ Len(x.mag) - x.shift = 2
       /\ x.mag[Len(x.mag)] = 1
       /\ \A i \in 1..(Len(x.mag) - 1) : x.mag[i] = 0

\* abs(formatted_value) < 1024.0 (tracemalloc.py:36)
AbsBelowBase(x) == Len(x.mag) - x.shift <= 1

\* the loop of format_bytes from its i-th unit on (tracemalloc.py:35-41);
\* dividing a float by 1024.0 only lowers its exponent
RECURSIVE FormatLoop(_, _)
FormatLoop(x, i) ==
    IF i > Len(Units) THEN Text(x, "YB")
    ELSE IF AbsBelowBase(x) THEN Text(x, Units[i])
    ELSE FormatLoop([x EXCEPT !.shift = @ + 1], i + 1)

\* format_bytes(value) (tracemalloc.py:32-41)
format_bytes(value) ==
    IF ~InDoubleRange(value.mag)
    THEN [NoText EXCEPT !.status = "raise", !.exc = "OverflowError: int too large to convert to float"]
    ELSE FormatLoop([neg |-> value.neg, mag |-> ToDouble(value.mag), shift |-> 0], 1)

\* one evaluation of format_bytes: the argument, then the result
NoFormat == [stage |-> "idle", value |-> [neg |-> FALSE, mag |-> <<>>], out |-> NoText]

\* the arguments tried: zero, and the magnitudes of 1..MaxDigits digits (and of
\* the lengths around the largest float) whose digits below the top one are alike
BytesInputs ==
    {[neg |-> FALSE, mag |-> <<>>]} \cup
    {[neg |-> neg, mag |-> [i \in 1..(below + 1) |-> IF i = below + 1 THEN top ELSE fill]] :
        neg \in BOOLEAN, top \in {1, 2, Base - 1}, fill \in {0, Base \div 2, Base - 1},
        below \in (0..(MaxDigits - 1)) \cup
                  {DoubleMaxExp \div DigitBits, DoubleMaxExp \div DigitBits + 1}}

\* format_bytes is applied to the argument
FormatBytes ==
    /\ fmt.stage = "input"
    /\ fmt' = [fmt EXCEPT !.stage = "done", !.out = format_bytes(fmt.value)]
    /\ UNCHANGED <<hnd, rnd, zc, scenario, boot, calls, profiler_lock, curr_profiler, running,
                   tracing, traceback_limit, enabled_in_env, origin, thr>>

\* ---------------------------------------------------------------- renderers
\* RenderMode and MimeType (renderers.py:21-29)
RenderMode == [VIEW |-> "view", DOWNLOAD |-> "download"]

MimeType ==
    [JSON |-> "application/json", HTML |-> "text/html",
     BINARY |-> "application/octet-stream"]

\* RenderedProfile (renderers.py:32-37); NoRendered stands for no object
RenderedProfile(file_name, mime_type, render_mode, content) ==
    [file_name |-> file_name, mime_type |-> mime_type, render_mode |-> render_mode,
     content |-> content]

NoRendered == RenderedProfile(<<>>, "", "", [nothing |-> TRUE])

\* the class attributes of the renderers of the memory profiler
\* (tracemalloc.py:203-206, 300-303, 390-393); key_type is the key their
\* statistics are grouped by
LinenoSnapshotRenderer ==
    [name |-> "LinenoSnapshotRenderer", mime_type |-> MimeType.JSON, file_ext |-> "json",
     render_mode |-> RenderMode.VIEW, key_type |-> "lineno"]

TracebackSnapshotRender ==
    [name |-> "TracebackSnapshotRender", mime_type |-> MimeType.JSON, file_ext |-> "json",
     render_mode |-> RenderMode.VIEW, key_type |-> "traceback"]

\* a pickle renderer whose output is shown in the browser
PickleSnapshotRendererShown ==
    [name |-> "PickleSnapshotRenderer", mime_type |-> MimeType.BINARY, file_ext |-> "pkl",
     render_mode |-> RenderMode.VIEW, key_type |-> ""]

PickleSnapshotRenderer ==
    [name |-> "PickleSnapshotRenderer", mime_type |-> MimeType.BINARY, file_ext |-> "pkl",
     render_mode |-> RenderMode.DOWNLOAD, key_type |-> ""]

\* the class attributes of the renderers of the CPU profiler
\* (pyinstrument.py:122-125, 149-152, 176-179)
JSONRenderer ==
    [name |-> "JSONRenderer", mime_type |-> MimeType.JSON, file_ext |-> "json",
     render_mode |-> RenderMode.DOWNLOAD, key_type |-> ""]

HTMLRenderer ==
    [name |-> "HTMLRenderer", mime_type |-> MimeType.HTML, file_ext |-> "html",
     render_mode |-> RenderMode.VIEW, key_type |-> ""]

SpeedscopeRenderer ==
    [name |-> "SpeedscopeRenderer", mime_type |-> MimeType.JSON, file_ext |-> "speedscope.json",
     render_mode |-> RenderMode.DOWNLOAD, key_type |-> ""]

NoRenderer ==
    [name |-> "", mime_type |-> "", file_ext |-> "", render_mode |-> "", key_type |-> ""]

\* PROFILE_RENDERERS, a dict in the order of its literal
\* (tracemalloc.py:436-440, pyinstrument.py:203-207)
MemProfileRenderers ==
    << <<"lineno", LinenoSnapshotRenderer>>,
       <<"traceback", TracebackSnapshotRender>>,
       <<"pickle", PickleSnapshotRenderer>> >>

CpuProfileRenderers ==
    << <<"json", JSONRenderer>>,
       <<"html", HTMLRenderer>>,
       <<"speedscope", SpeedscopeRenderer>> >>

\* the names joined without the first key
FormatNamesButFirst(renderers) == [i \in 1..(Len(renderers) - 1) |-> renderers[i + 1][1]]

\* ', '.join(PROFILE_RENDERERS): the keys of the dict, in its order
FormatNames(renderers) == [i \in 1..Len(renderers) |-> renderers[i][1]]

InvalidProfileFormat == "ValueError: Invalid profile format"

\* get_renderer(format) over the dict of its module
\* (tracemalloc.py:443-447, pyinstrument.py:210-214)
get_renderer(renderers, format) ==
    IF \E i \in 1..Len(renderers) : renderers[i][1] = format
    THEN [status |-> "return", exc |-> "", format |-> format, formats |-> <<>>,
          renderer |-> renderers[CHOOSE i \in 1..Len(renderers) :
                                     renderers[i][1] = format][2]]
    ELSE [status |-> "raise", exc |-> InvalidProfileFormat, format |-> format,
          formats |-> FormatNames(renderers), renderer |-> NoRenderer]

\* get_file_name / get_filename: prefix, timestamp, ".", file_ext
\* (tracemalloc.py:208-211, pyinstrument.py:133-136)
MemFileName(renderer, now) ==
    <<"hwk_mem_tracemalloc_snapshot_", now, ".", renderer.file_ext>>

CpuFileName(renderer, now) ==
    <<"hwk_cpu_pyinstr_profile_", now, ".", renderer.file_ext>>

\* tracemalloc.Snapshot: a snapshot is the number of its groups of traces;
\* statistics() lists one Statistic per group, the largest first, and
\* compare_to() one StatisticDiff per group of either snapshot
Statistics(snapshot, key_type, cumulative) ==
    [i \in 1..snapshot |->
        [key |-> <<key_type, cumulative, i>>, size |-> snapshot - i + 1, count |-> i]]

CompareTo(stop_snapshot, start_snapshot, key_type, cumulative) ==
    [i \in 1..(IF stop_snapshot > start_snapshot THEN stop_snapshot ELSE start_snapshot) |->
        [key |-> <<key_type, cumulative, i>>,
         size |-> IF i <= stop_snapshot THEN stop_snapshot - i + 1 ELSE 0, count |-> i]]

\* a slice that keeps the last entries
SliceFromEnd(s, count) ==
    SubSeq(s, Len(s) + 1 - (IF count < 0 THEN 0 ELSE IF count > Len(s) THEN Len(s) ELSE count),
           Len(s))

\* top_stats[:count] (tracemalloc.py:284, 381): a negative count is taken from the end
SliceTo(s, count) ==
    SubSeq(s, 1, IF count < 0
                 THEN (IF Len(s) + count < 0 THEN 0 ELSE Len(s) + count)
                 ELSE (IF count > Len(s) THEN Len(s) ELSE count))

\* _format_lineno (tracemalloc.py:283-297)
FormatLineno(top_stats, count) ==
    LET part == SliceTo(top_stats, count)
    IN  [i \in 1..Len(part) |->
            [stat |-> part[i].key, shape |-> "lineno",
             mem_blocks_count |-> part[i].count,
             mem_blocks_size_bytes |-> part[i].size,
             mem_blocks_size |-> format_bytes(FromInt(part[i].size))]]

\* _format_traceback (tracemalloc.py:380-387)
FormatTraceback(top_stats, count) ==
    LET part == SliceTo(top_stats, count)
    IN  [i \in 1..Len(part) |->
            [stat |-> part[i].key, shape |-> "traceback",
             mem_blocks_count |-> part[i].count,
             mem_blocks_size_bytes |-> part[i].size,
             mem_blocks_size |-> format_bytes(FromInt(part[i].size))]]

\* the statistics entries of a renderer: _format_lineno or _format_traceback
FormatStats(renderer, top_stats, count) ==
    IF renderer.key_type = "lineno"
    THEN FormatLineno(top_stats, count)
    ELSE FormatTraceback(top_stats, count)

\* isinstance(profile, ...) (tracemalloc.py:218-227): the classes differ in their fields
IsPointInTimeProfile(profile) == DOMAIN profile = DOMAIN NoProfile
IsIntervalProfile(profile) == DOMAIN profile = DOMAIN NoInterval
IsIntervalProfileProxy(profile) == DOMAIN profile = DOMAIN NoProxy

\* _render_point_in_time_profile (tracemalloc.py:229-250, 329-349); only the
\* lineno renderer passes opt.cumulative on
RenderPointInTime(renderer, profile, opt, now) ==
    RenderedProfile(MemFileName(renderer, now), renderer.mime_type, renderer.render_mode,
        [stats |-> FormatStats(renderer,
                       Statistics(profile.snapshot, renderer.key_type,
                                  renderer.key_type = "lineno" /\ opt.cumulative),
                       opt.count),
         heap_current_bytes |-> profile.heap_usage_bytes,
         heap_current |-> format_bytes(FromInt(profile.heap_usage_bytes))])

\* the difference taken the other way round
HeapDiffBytesReversed(profile) ==
    profile.start_heap_usage_bytes - profile.stop_heap_usage_bytes

\* heap_diff_bytes (tracemalloc.py:264, 362)
HeapDiffBytes(profile) ==
    profile.stop_heap_usage_bytes - profile.start_heap_usage_bytes

\* _render_interval_profile (tracemalloc.py:252-281, 351-378)
RenderInterval(renderer, profile, opt, now) ==
    RenderedProfile(MemFileName(renderer, now), renderer.mime_type, renderer.render_mode,
        [stats |-> FormatStats(renderer,
                       CompareTo(profile.stop_snapshot, profile.start_snapshot,
                                 renderer.key_type,
                                 renderer.key_type = "lineno" /\ opt.cumulative),
                       opt.count),
         heap_current_bytes |-> profile.stop_heap_usage_bytes,
         heap_current |-> format_bytes(FromInt(profile.stop_heap_usage_bytes)),
         heap_diff_bytes |-> HeapDiffBytes(profile),
         heap_diff |-> format_bytes(FromInt(HeapDiffBytes(profile)))])

\* PickleSnapshotRenderer.render once the snapshot is chosen: pickle.dump and
\* getvalue() (tracemalloc.py:419-433)
RenderPickle(renderer, snapshot, now) ==
    RenderedProfile(MemFileName(renderer, now), renderer.mime_type, renderer.render_mode,
                    [pickle_of |-> snapshot])

\* the outcome of a render call: the RenderedProfile, or the exception; profile
\* is the argument as the call left it (get() fills the cache of a proxy)
RenderReturned(rendered, profile) ==
    [status |-> "return", exc |-> "", rendered |-> rendered, profile |-> profile]

RenderRaised(exc, profile) ==
    [status |-> "raise", exc |-> exc, rendered |-> NoRendered, profile |-> profile]

\* render(profile, opt) of the three renderers of the memory profiler
\* (tracemalloc.py:213-227, 313-327, 399-417)
MemRender(renderer, profile, opt, now) ==
    IF IsPointInTimeProfile(profile)
    THEN RenderReturned(
             IF renderer.name = "PickleSnapshotRenderer"
             THEN RenderPickle(renderer, profile.snapshot, now)
             ELSE RenderPointInTime(renderer, profile, opt, now), profile)
    ELSE IF IsIntervalProfile(profile)
    THEN RenderReturned(
             IF renderer.name = "PickleSnapshotRenderer"
             THEN RenderPickle(renderer, profile.stop_snapshot, now)
             ELSE RenderInterval(renderer, profile, opt, now), profile)
    ELSE IF IsIntervalProfileProxy(profile)
    THEN IF ProxyStopMissing(profile)
         THEN RenderRaised(StopProfileNotSet, profile)
         ELSE RenderReturned(
                  IF renderer.name = "PickleSnapshotRenderer"
                  THEN RenderPickle(renderer, ProxyGetValue(profile).stop_snapshot, now)
                  ELSE RenderInterval(renderer, ProxyGetValue(profile), opt, now),
                  [profile EXCEPT !.interval_profile = ProxyGetValue(profile)])
    ELSE RenderRaised("ValueError: Invalid profile type", profile)

\* render(profiler) of the three renderers of the CPU profiler: the content is
\* profiler.output(renderer) (pyinstrument.py:138-146, 165-173, 192-200)
CpuRender(renderer, profiler, now) ==
    RenderReturned(
        RenderedProfile(CpuFileName(renderer, now), renderer.mime_type,
                        renderer.render_mode,
                        [output_of |-> profiler.id, renderer |-> renderer.name]),
        profiler)

\* ---------------------------------------------------------------- one rendering
\* one evaluation of get_renderer(format).render(profile, opt): the arguments,
\* the renderer found, the outcome
NoRender ==
    [stage |-> "idle", kind |-> "", format |-> "", profile |-> [nothing |-> TRUE],
     opt |-> [count |-> 0, cumulative |-> FALSE], now |-> "",
     found |-> [status |-> "none", exc |-> "", format |-> "", formats |-> <<>>,
               renderer |-> NoRenderer], out |-> [status |-> "none", exc |-> "", rendered |-> NoRendered,
             profile |-> [nothing |-> TRUE]]]

\* datetime.now().strftime(...) (tracemalloc.py:209, pyinstrument.py:134)
Timestamps == {"2024-01-01_00-00-00", "2024-12-31_23-59-59"}

\* the arguments tried.  Memory profiler: every format name, the profiles of
\* the three classes and an object of none of them, every count of
\* -MaxCount..MaxCount.  CPU profiler: every format name, a pyinstrument.Profiler
RenderInputs ==
    LET formats  == {"lineno", "traceback", "pickle", "html", "json", "speedscope",
                     "nonexistent"}
        measured == [heap_usage_bytes : 0..MaxBytes, snapshot : 0..MaxStats]
        profiles == measured
                    \cup {MakeIntervalProfile(ProxyStop(ProxyInit(a), b)) : a, b \in measured}
                    \cup {ProxyInit(a) : a \in measured}
                    \cup {ProxyStop(ProxyInit(a), b) : a, b \in measured}
                    \cup {[nothing |-> TRUE]}
    IN  {[NoRender EXCEPT !.stage = "input", !.kind = "mem", !.format = f, !.profile = p,
                          !.opt = o, !.now = n] :
            f \in formats, p \in profiles,
            o \in [count : (-MaxCount)..MaxCount, cumulative : BOOLEAN], n \in Timestamps}
        \cup
        {[NoRender EXCEPT !.stage = "input", !.kind = "cpu", !.format = f,
                          !.profile = [id |-> p], !.now = n] :
            f \in formats, p \in 1..MaxCalls, n \in Timestamps}

\* get_renderer(format) of the module of the profiler
GetRenderer ==
    /\ rnd.stage = "input"
    /\ LET found == IF rnd.kind = "mem"
                    THEN get_renderer(MemProfileRenderers, rnd.format)
                    ELSE get_renderer(CpuProfileRenderers, rnd.format)
       IN  rnd' = [rnd EXCEPT !.found = found,
                              !.stage = IF found.status = "return"
                                        THEN "renderer" ELSE "done"]
    /\ UNCHANGED <<hnd, fmt, zc, scenario, boot, calls, profiler_lock, curr_profiler, running,
                   tracing, traceback_limit, enabled_in_env, origin, thr>>

\* renderer.render(...) on the renderer found
Render ==
    /\ rnd.stage = "renderer"
    /\ LET out == IF rnd.kind = "mem"
                  THEN MemRender(rnd.found.renderer, rnd.profile, rnd.opt, rnd.now)
                  ELSE CpuRender(rnd.found.renderer, rnd.profile, rnd.now)
       IN  rnd' = [rnd EXCEPT !.out = out, !.profile = out.profile, !.stage = "done"]
    /\ UNCHANGED <<hnd, fmt, zc, scenario, boot, calls, profiler_lock, curr_profiler, running,
                   tracing, traceback_limit, enabled_in_env, origin, thr>>

\* ---------------------------------------------------------------- query parameters
\* The query string of a request: a value per key, Absent for a key the
\* request does not carry.
Absent == "<absent>"

\* query_params.get(key, default)
Get(query, key, default) == IF query[key] = Absent THEN default ELSE query[key]

\* the texts int() accepts, with their values; int() raises ValueError on every other
IntOf ==
    ("-1" :> -1) @@ ("0" :> 0) @@ ("1" :> 1) @@ ("2" :> 2) @@ ("10" :> 10) @@ ("30" :> 30)

\* the texts float() accepts, with their values in microseconds (0.001 s is
\* 1000); float() raises ValueError on every other
FloatOf == ("0.001" :> 1000) @@ ("0" :> 0) @@ ("-1" :> -1000000)

\* value.lower() in {"1", "true", "yes"} (tracemalloc.py:65, 120; pyinstrument.py:56)
Truthy(s) ==
    LET lower == CASE s = "Yes" -> "yes" [] s = "TRUE" -> "true" [] OTHER -> s
    IN  lower \in {"1", "true", "yes"}

\* the members of the enums ProfileFormat and AsyncModes
\* (tracemalloc.py:47-50, pyinstrument.py:32-41)
MemProfileFormat == {"lineno", "traceback", "pickle"}
CpuProfileFormat == {"html", "json", "speedscope"}
AsyncModes == {"enabled", "disabled", "strict"}

\* ---------------------------------------------------------------- ProfileHandler
\* A ProfileHandler: the request it was made for, what its __init__ kept or
\* raised, whether its profile() was entered and had its scope yield the
\* session to it, and what render_profile() gave.  at is the number of the
\* call that entered the scope.
NoHandler ==
    [stage |-> "none", kind |-> "", query |-> [nothing |-> Absent], error |-> "",
     opt |-> [nothing |-> TRUE], renderer_opt |-> [count |-> 0, cumulative |-> FALSE],
     format |-> "", bound |-> FALSE, profiler |-> None, at |-> 0,
     out |-> [status |-> "none", exc |-> "", rendered |-> NoRendered,
             profile |-> [nothing |-> TRUE]]]

Rejected(kind, query, exc) ==
    [NoHandler EXCEPT !.stage = "rejected", !.kind = kind, !.query = query, !.error = exc]

\* ProfileOptions.from_query_params and __post_init__ of the memory profiler
\* (tracemalloc.py:53-67)
MemProfileOptions(query) ==
    IF Get(query, "frames", "30") \notin DOMAIN IntOf
    THEN [status |-> "raise", exc |-> "ValueError: invalid literal for int() with base 10", opt |-> [nothing |-> TRUE]]
    ELSE IF IntOf[Get(query, "frames", "30")] < 1
    THEN [status |-> "raise", exc |-> "ValueError: Frames should be greater than 0", opt |-> [nothing |-> TRUE]]
    ELSE [status |-> "return", exc |-> "",
          opt |-> [gc |-> Truthy(Get(query, "gc", "1")),
                   frames |-> IntOf[Get(query, "frames", "30")]]]

\* RendererOptions.from_query_params (tracemalloc.py:111-121)
RendererOptions(query) ==
    IF Get(query, "count", "10") \notin DOMAIN IntOf
    THEN [status |-> "raise", exc |-> "ValueError: invalid literal for int() with base 10",
          opt |-> NoHandler.renderer_opt]
    ELSE [status |-> "return", exc |-> "",
          opt |-> [count |-> IntOf[Get(query, "count", "10")],
                   cumulative |-> Truthy(Get(query, "cumulative", "0"))]]

\* ProfileOptions.from_query_params of the CPU profiler (pyinstrument.py:43-63):
\* no value of interval is refused
CpuProfileOptions(query) ==
    IF Get(query, "interval", "0.001") \notin DOMAIN FloatOf
    THEN [status |-> "raise", exc |-> "ValueError: could not convert string to float", opt |-> [nothing |-> TRUE]]
    ELSE IF Get(query, "async_mode", "enabled") \notin AsyncModes
    THEN [status |-> "raise", exc |-> "ValueError: not a valid member of the enum", opt |-> [nothing |-> TRUE]]
    ELSE [status |-> "return", exc |-> "",
          opt |-> [interval |-> FloatOf[Get(query, "interval", "0.001")],
                   async_mode |-> Get(query, "async_mode", "enabled"),
                   use_timing_thread |->
                       IF query["use_timing_thread"] = Absent THEN "None"
                       ELSE IF Truthy(query["use_timing_thread"]) THEN "True"
                       ELSE "False"]]

\* a format that is taken as it comes
FormatUnchecked(formats, value) == [status |-> "return", exc |-> "", format |-> value]

\* ProfileFormat(value): the member of the enum with that value, or ValueError
\* (tracemalloc.py:457, pyinstrument.py:227)
ProfileFormat(formats, value) ==
    IF value \in formats
    THEN [status |-> "return", exc |-> "", format |-> value]
    ELSE [status |-> "raise", exc |-> "ValueError: not a valid member of the enum", format |-> ""]

\* ProfileHandler.__init__ of the memory profiler (tracemalloc.py:454-459)
MemHandlerInit(query) ==
    LET o == MemProfileOptions(query)
        r == RendererOptions(query)
        f == ProfileFormat(MemProfileFormat, Get(query, "format", "lineno"))
    IN  IF o.status = "raise" THEN Rejected("mem", query, o.exc)
        ELSE IF r.status = "raise" THEN Rejected("mem", query, r.exc)
        ELSE IF f.status = "raise" THEN Rejected("mem", query, f.exc)
        ELSE [NoHandler EXCEPT !.stage = "made", !.kind = "mem", !.query = query,
                               !.opt = o.opt, !.renderer_opt = r.opt,
                               !.format = f.format]

\* ProfileHandler.__init__ of the CPU profiler, pyinstrument being installed
\* (pyinstrument.py:221-229)
CpuHandlerInit(query) ==
    LET o == CpuProfileOptions(query)
        f == ProfileFormat(CpuProfileFormat, Get(query, "format", "html"))
    IN  IF o.status = "raise" THEN Rejected("cpu", query, o.exc)
        ELSE IF f.status = "raise" THEN Rejected("cpu", query, f.exc)
        ELSE [NoHandler EXCEPT !.stage = "made", !.kind = "cpu", !.query = query,
                               !.opt = o.opt, !.format = f.format]

\* the query strings of the requests served
Queries(kind) ==
    LET NoQuery ==
            [format |-> Absent, frames |-> Absent, gc |-> Absent, count |-> Absent,
             cumulative |-> Absent, interval |-> Absent, async_mode |-> Absent,
             use_timing_thread |-> Absent]
    IN
    IF kind = "mem"
    THEN {[NoQuery EXCEPT !.format = f, !.frames = n, !.count = c] :
             f \in {Absent, "pickle", "html"},
             n \in {Absent, "0", "many"},
             c \in {Absent, "-1"}}
    ELSE {[NoQuery EXCEPT !.format = f, !.interval = i] :
             f \in {Absent, "json", "lineno"},
             i \in {Absent, "0", "-1", "fast"}}

\* ---------------------------------------------------------------- ZContainer
\* A component is what its to_html() and to_json() give: a leaf component is
\* written with the two values, a container with its id, tag and children.
\* An HTML string is the sequence of its pieces, a JSON object a function of
\* its keys, a JSON value a string (is = "str") or an object (is = "obj").

\* id=None of ZContainer.__init__ (container.py:23)
NoId == "<None>"

\* ZContainer.__init__ (container.py:23-26)
ZContainer(id, tag) == [kind |-> "container", id |-> id, tag |-> tag, children |-> <<>>]

\* add with the component put in front of the children
addFirst(self, component) == [self EXCEPT !.children = <<component>> \o @]

\* ZContainer.add: self.children.append(component) (container.py:28-29)
add(self, component) == [self EXCEPT !.children = Append(@, component)]

\* merge_json: {} for no parts, else functools.reduce of
\* {**(x or {}), **(y or {})} over the parts (templates.py:26-33)
merge_json(json_parts) ==
    LET merge(x, y) ==
            [k \in DOMAIN x \cup DOMAIN y |-> IF k \in DOMAIN y THEN y[k] ELSE x[k]]
        RECURSIVE reduce(_, _)
        reduce(x, i) ==
            IF i > Len(json_parts) THEN x ELSE reduce(merge(x, json_parts[i]), i + 1)
    IN  IF json_parts = <<>> THEN <<>> ELSE reduce(json_parts[1], 2)

\* ZContainer.to_html (container.py:48-51); child.to_html() of a leaf
\* component is the value it is written with
RECURSIVE to_html(_)
to_html(self) ==
    IF self.kind = "leaf"
    THEN self.html
    ELSE LET RECURSIVE join(_)
             join(i) ==
                 IF i > Len(self.children) THEN <<>>
                 ELSE to_html(self.children[i]) \o join(i + 1)
             content == join(1)
         IN  <<"<", self.tag, " id=\"", IF self.id \in {NoId, ""} THEN "" ELSE self.id,
               "\" class=\"container\">">>
             \o content \o <<"</", self.tag, ">">>

\* ZContainer.to_json (container.py:53-61)
RECURSIVE to_json(_)
to_json(self) ==
    IF self.kind = "leaf"
    THEN self.json
    ELSE LET json == merge_json([i \in 1..Len(self.children) |->
                                    to_json(self.children[i])])
         IN  IF self.id \notin {NoId, ""}
             THEN [k \in {self.id} |-> [is |-> "obj", str |-> "", obj |-> json]]
             ELSE json

\* no container made; html and json hold what to_html() and to_json()
\* returned since the last change of the container
NoContainer ==
    [stage |-> "none", container |-> ZContainer(NoId, "div"), added |-> <<>>,
     html |-> [done |-> FALSE, value |-> <<>>],
     json |-> [done |-> FALSE, value |-> <<>>]]

\* the components added: two components with a common key (a header and a
\* subheader, header.py:34-35, subheader.py:33-36), ZNoOpComponent
\* (base.py:37-42), and containers with and without an id that hold a child
Components ==
    LET str(s)  == [is |-> "str", str |-> s, obj |-> <<>>]
        header  == [kind |-> "leaf", html |-> <<"<h1>a</h1>">>,
                    json |-> [k \in {"title", "description"} |-> str("a")]]
        section == [kind |-> "leaf", html |-> <<"<h2>b</h2>">>,
                    json |-> [k \in {"title", "s"} |-> str("b")]]
        noop    == [kind |-> "leaf", html |-> <<>>, json |-> <<>>]
    IN  {header, section, noop,
         add(ZContainer(NoId, "div"), header),
         add(add(ZContainer("s", "section"), section), noop)}

\* container.add(component) (container.py:28-29)
ContainerAdd ==
    /\ zc.stage = "made"
    /\ Len(zc.added) < MaxChildren
    /\ \E component \in Components :
          zc' = [NoContainer EXCEPT !.stage = "made",
                                    !.container = add(zc.container, component),
                                    !.added = Append(zc.added, component)]
    /\ UNCHANGED <<hnd, rnd, fmt, scenario, boot, calls, profiler_lock, curr_profiler,
                   running, tracing, traceback_limit, enabled_in_env, origin, thr>>

\* container |= component: there is no __ior__, so the name is bound to what
\* __or__ returns, which is self after self.add(other) (container.py:37-39)
ContainerOr ==
    /\ zc.stage = "made"
    /\ Len(zc.added) < MaxChildren
    /\ \E other \in Components :
          zc' = [NoContainer EXCEPT !.stage = "made",
                                    !.container = add(zc.container, other),
                                    !.added = Append(zc.added, other)]
    /\ UNCHANGED <<hnd, rnd, fmt, scenario, boot, calls, profiler_lock, curr_profiler,
                   running, tracing, traceback_limit, enabled_in_env, origin, thr>>

\* container.to_html() (container.py:48-51)
ContainerToHtml ==
    /\ zc.stage = "made"
    /\ ~zc.html.done
    /\ zc' = [zc EXCEPT !.html = [done |-> TRUE, value |-> to_html(zc.container)]]
    /\ UNCHANGED <<hnd, rnd, fmt, scenario, boot, calls, profiler_lock, curr_profiler,
                   running, tracing, traceback_limit, enabled_in_env, origin, thr>>

\* container.to_json() (container.py:53-61)
ContainerToJson ==
    /\ zc.stage = "made"
    /\ ~zc.json.done
    /\ zc' = [zc EXCEPT !.json = [done |-> TRUE, value |-> to_json(zc.container)]]
    /\ UNCHANGED <<hnd, rnd, fmt, scenario, boot, calls, profiler_lock, curr_profiler,
                   running, tracing, traceback_limit, enabled_in_env, origin, thr>>

\* ---------------------------------------------------------------- idle evaluations
\* no request is served, nothing is rendered or formatted, no container is made
InitAux ==
    /\ hnd = [t \in Threads |-> NoHandler]
    /\ rnd = NoRender
    /\ fmt = NoFormat
    /\ zc = NoContainer

\* ---------------------------------------------------------------- initial states
\* The controllers are module-level singletons (pyinstrument.py:217,
\* tracemalloc.py:450).  tracemalloc may already trace when the module is
\* imported (PYTHONTRACEMALLOC=N, -X tracemalloc=N); PYTHONTRACEMALLOC=0 sets
\* the variable without tracing.
InitShared ==
    /\ calls = 0
    /\ profiler_lock = "free"
    /\ curr_profiler = None
    /\ running = {}
    /\ enabled_in_env \in BOOLEAN
    /\ tracing \in BOOLEAN
    /\ traceback_limit \in 1..MaxFrames
    /\ (~tracing => traceback_limit = 1)
    /\ origin = IF tracing THEN "external" ELSE "none"
    /\ boot = [tracing |-> tracing, traceback_limit |-> traceback_limit]
    /\ thr = [t \in Threads |-> IdleFrame]

\* concurrent callers of one controller (the two controllers share no state)
Init ==
    /\ InitShared
    /\ InitAux
    /\ scenario \in {[callers |-> Threads, kinds |-> k, call_budget |-> MaxCalls,
                       heap_max |-> 0, traces_max |-> 0, native_faults |-> FALSE] :
                      k \in {{"cpu"}, {"mem"}}}
    /\ ("mem" \notin scenario.kinds => ~tracing /\ ~enabled_in_env)

\* a single caller of both controllers and of the proxy its scope yields
InitSeq ==
    /\ InitShared
    /\ InitAux
    /\ scenario = [callers |-> {"t1"}, kinds |-> {"cpu", "mem"},
                   call_budget |-> MaxSeqCalls,
                   heap_max |-> MaxHeap, traces_max |-> MaxTraces,
                   native_faults |-> FALSE]

\* ---------------------------------------------------------------- PyInstrumentProfiler
\* is_profiling / the truth test of _curr_profiler (pyinstrument.py:73, 88, 104, 108)
is_profiling == curr_profiler # None

\* profiler ids referenced by the controller, by a frame or still running
InUse ==
    running \cup {curr_profiler}
            \cup {thr[t].profiler : t \in Threads}
            \cup {thr[t].out.profiler : t \in Threads}

\* pyinstrument.Profiler(...): a new object (pyinstrument.py:93-97)
NewProfiler == CHOOSE i \in 1..(scenario.call_budget + 1) :
    /\ i \notin InUse
    /\ \A j \in 1..(i - 1) : j \in InUse

\* the frame after start() returned `value` (pyinstrument.py:77-80, 101)
CpuStartReturns(f, value) ==
    IF f.phase = "enter"
    THEN [f EXCEPT !.phase = "work", !.pc = "work", !.profiler = value,
                   !.opt = IdleFrame.opt]
    ELSE Return(f, value, NoProfile)

\* the frame after stop() returned `value` (pyinstrument.py:81-82, 114)
CpuStopReturns(f, value) ==
    IF f.phase = "exit"
    THEN IF f.pending = WorkloadError
         THEN Raise(f, WorkloadError)
         ELSE Return(f, None, NoProfile)
    ELSE Return(f, value, NoProfile)

\* a thread calls PyInstrumentProfiler.start(opt)
CallCpuStart(t) ==
    /\ CanCall(t, "cpu")
    /\ calls' = calls + 1
    /\ thr' = [thr EXCEPT ![t] =
           Begin("cpu_start", "plain", "cs_check", IdleFrame.opt, is_profiling, "none")]
    /\ UNCHANGED <<aux, scenario, boot, profiler_lock, curr_profiler, running, tracing,
                   traceback_limit, enabled_in_env, origin>>

\* a thread calls PyInstrumentProfiler.stop()
CallCpuStop(t) ==
    /\ CanCall(t, "cpu")
    /\ calls' = calls + 1
    /\ thr' = [thr EXCEPT ![t] =
           Begin("cpu_stop", "plain", "cp_check", IdleFrame.opt, is_profiling, "none")]
    /\ UNCHANGED <<aux, scenario, boot, profiler_lock, curr_profiler, running, tracing,
                   traceback_limit, enabled_in_env, origin>>

\* a thread enters `with profiler.profile(opt)`: profile() calls start (pyinstrument.py:77)
CallCpuProfile(t) ==
    /\ CanCall(t, "cpu")
    /\ calls' = calls + 1
    /\ thr' = [thr EXCEPT ![t] =
           Begin("cpu_profile", "enter", "cs_check", IdleFrame.opt, is_profiling, "none")]
    /\ UNCHANGED <<aux, scenario, boot, profiler_lock, curr_profiler, running, tracing,
                   traceback_limit, enabled_in_env, origin>>

\* what the unlocked test of start() decides (pyinstrument.py:88-89)
CpuStartRefused == is_profiling

\* start(): if self._curr_profiler: raise ProfilingAlreadyStarted (pyinstrument.py:88-89)
CpuStartCheck(t) ==
    /\ thr[t].pc = "cs_check"
    /\ thr' = [thr EXCEPT ![t] =
           IF CpuStartRefused
           THEN Raise(@, AlreadyStarted)
           ELSE [@ EXCEPT !.pc = "cs_lock", !.stale = FALSE]]
    /\ UNCHANGED <<aux, scenario, boot, calls, profiler_lock, curr_profiler, running, tracing,
                   traceback_limit, enabled_in_env, origin>>

\* start(): with self._profiler_lock (pyinstrument.py:91)
CpuStartLock(t) ==
    /\ thr[t].pc = "cs_lock"
    /\ profiler_lock = "free"
    /\ profiler_lock' = t
    /\ thr' = [thr EXCEPT ![t].pc = "cs_native"]
    /\ UNCHANGED <<aux, scenario, boot, calls, curr_profiler, running, tracing,
                   traceback_limit, enabled_in_env, origin>>

\* start(): profiler = pyinstrument.Profiler(...); profiler.start()
\* (pyinstrument.py:93-98).  When profiler.start() raises, the exception
\* leaves the with block, which releases the lock, and nothing was assigned.
CpuStartNative(t) ==
    /\ thr[t].pc = "cs_native"
    /\ \E fails \in {FALSE, scenario.native_faults} :
          IF fails
          THEN /\ running' = running
               /\ profiler_lock' = "free"
               /\ thr' = [thr EXCEPT ![t] = Raise(@, NativeError)]
          ELSE /\ running' = running \cup {NewProfiler}
               /\ profiler_lock' = profiler_lock
               /\ thr' = [thr EXCEPT ![t].pc = "cs_assign", ![t].profiler = NewProfiler]
    /\ UNCHANGED <<aux, scenario, boot, calls, curr_profiler, tracing,
                   traceback_limit, enabled_in_env, origin>>

\* every other thread that is between its deciding test and its write of
\* _curr_profiler has now seen a value that is out of date
Outdated(t) ==
    [u \in Threads |->
        IF u # t /\ thr[u].pc \in {"cs_lock", "cs_native", "cs_assign", "cp_native", "cp_swap"}
        THEN [thr[u] EXCEPT !.stale = TRUE]
        ELSE thr[u]]

\* start(): self._curr_profiler = profiler (pyinstrument.py:99)
CpuStartAssign(t) ==
    /\ thr[t].pc = "cs_assign"
    /\ curr_profiler' = thr[t].profiler
    /\ thr' = [Outdated(t) EXCEPT ![t].pc = "cs_unlock", ![t].profiler = None]
    /\ UNCHANGED <<aux, scenario, boot, calls, profiler_lock, running, tracing,
                   traceback_limit, enabled_in_env, origin>>

\* start() that leaves its critical section without releasing the lock
CpuStartKeepsLock(t) ==
    /\ thr[t].pc = "cs_unlock"
    /\ profiler_lock' = profiler_lock
    /\ thr' = [thr EXCEPT ![t].pc = "cs_return"]
    /\ UNCHANGED <<aux, scenario, boot, calls, curr_profiler, running, tracing,
                   traceback_limit, enabled_in_env, origin>>

\* start(): the with block ends, the lock is released (pyinstrument.py:91-99)
CpuStartUnlock(t) ==
    /\ thr[t].pc = "cs_unlock"
    /\ profiler_lock' = "free"
    /\ thr' = [thr EXCEPT ![t].pc = "cs_return"]
    /\ UNCHANGED <<aux, scenario, boot, calls, curr_profiler, running, tracing,
                   traceback_limit, enabled_in_env, origin>>

\* start(): return self._curr_profiler (pyinstrument.py:101)
CpuStartReturn(t) ==
    /\ thr[t].pc = "cs_return"
    /\ thr' = [thr EXCEPT ![t] = CpuStartReturns(@, curr_profiler)]
    /\ UNCHANGED <<aux, scenario, boot, calls, profiler_lock, curr_profiler, running, tracing,
                   traceback_limit, enabled_in_env, origin>>

\* what the unlocked test of stop() decides (pyinstrument.py:104-105)
CpuStopRefused == ~is_profiling

\* stop(): if not self._curr_profiler: raise ProfilingNotStarted (pyinstrument.py:104-105)
CpuStopCheck(t) ==
    /\ thr[t].pc = "cp_check"
    /\ thr' = [thr EXCEPT ![t] =
           IF CpuStopRefused
           THEN Raise(@, NotStarted)
           ELSE [@ EXCEPT !.pc = "cp_lock"]]
    /\ UNCHANGED <<aux, scenario, boot, calls, profiler_lock, curr_profiler, running, tracing,
                   traceback_limit, enabled_in_env, origin>>

\* stop(): with self._profiler_lock (pyinstrument.py:107)
CpuStopLock(t) ==
    /\ thr[t].pc = "cp_lock"
    /\ profiler_lock = "free"
    /\ profiler_lock' = t
    /\ thr' = [thr EXCEPT ![t].pc = "cp_recheck"]
    /\ UNCHANGED <<aux, scenario, boot, calls, curr_profiler, running, tracing,
                   traceback_limit, enabled_in_env, origin>>

\* stop() that does not repeat its test under the lock
CpuStopRecheckMissing(t) ==
    /\ thr[t].pc = "cp_recheck"
    /\ profiler_lock' = profiler_lock
    /\ thr' = [thr EXCEPT ![t].pc = "cp_native", ![t].stale = FALSE]
    /\ UNCHANGED <<aux, scenario, boot, calls, curr_profiler, running, tracing,
                   traceback_limit, enabled_in_env, origin>>

\* stop(): the test repeated under the lock; the raise leaves the with block
\* and releases the lock (pyinstrument.py:108-109)
CpuStopRecheck(t) ==
    /\ thr[t].pc = "cp_recheck"
    /\ IF ~is_profiling
       THEN /\ profiler_lock' = "free"
            /\ thr' = [thr EXCEPT ![t] = Raise(@, NotStarted)]
       ELSE /\ profiler_lock' = profiler_lock
            /\ thr' = [thr EXCEPT ![t].pc = "cp_native", ![t].stale = FALSE]
    /\ UNCHANGED <<aux, scenario, boot, calls, curr_profiler, running, tracing,
                   traceback_limit, enabled_in_env, origin>>

\* stop() that acquires the lock without a with block: when the native stop
\* raises, the lock stays held
CpuStopNativeLeaksLock(t) ==
    /\ thr[t].pc = "cp_native"
    /\ \E fails \in {FALSE, scenario.native_faults} :
          IF fails
          THEN /\ running' = running
               /\ profiler_lock' = profiler_lock
               /\ thr' = [thr EXCEPT ![t] = Raise(@, NativeError)]
          ELSE /\ running' = running \ {curr_profiler}
               /\ profiler_lock' = profiler_lock
               /\ thr' = [thr EXCEPT ![t].pc = "cp_swap",
                                     ![t].events = Append(@, "native_stop")]
    /\ UNCHANGED <<aux, scenario, boot, calls, curr_profiler, tracing,
                   traceback_limit, enabled_in_env, origin>>

\* stop(): self._curr_profiler.stop() (pyinstrument.py:111).  When it raises,
\* the exception leaves the with block, which releases the lock; the profiler
\* keeps running and stays in _curr_profiler.
CpuStopNative(t) ==
    /\ thr[t].pc = "cp_native"
    /\ \E fails \in {FALSE, scenario.native_faults} :
          IF fails
          THEN /\ running' = running
               /\ profiler_lock' = "free"
               /\ thr' = [thr EXCEPT ![t] = Raise(@, NativeError)]
          ELSE /\ running' = running \ {curr_profiler}
               /\ profiler_lock' = profiler_lock
               /\ thr' = [thr EXCEPT ![t].pc = "cp_swap",
                                     ![t].events = Append(@, "native_stop")]
    /\ UNCHANGED <<aux, scenario, boot, calls, curr_profiler, tracing,
                   traceback_limit, enabled_in_env, origin>>

\* stop(): profiler, self._curr_profiler = self._curr_profiler, None (pyinstrument.py:112)
CpuStopSwap(t) ==
    /\ thr[t].pc = "cp_swap"
    /\ curr_profiler' = None
    /\ thr' = [Outdated(t) EXCEPT ![t].pc = "cp_unlock", ![t].profiler = curr_profiler]
    /\ UNCHANGED <<aux, scenario, boot, calls, profiler_lock, running, tracing,
                   traceback_limit, enabled_in_env, origin>>

\* stop(): the with block ends; return profiler (pyinstrument.py:107-114)
CpuStopUnlock(t) ==
    /\ thr[t].pc = "cp_unlock"
    /\ profiler_lock' = "free"
    /\ thr' = [thr EXCEPT ![t] = CpuStopReturns(@, @.profiler)]
    /\ UNCHANGED <<aux, scenario, boot, calls, curr_profiler, running, tracing,
                   traceback_limit, enabled_in_env, origin>>

\* profile() without try/finally: an exception of the body skips stop()
CpuAfterWorkloadNoFinally(f, raised) ==
    IF raised
    THEN Raise(f, WorkloadError)
    ELSE [f EXCEPT !.phase = "exit", !.pc = "cp_check", !.pending = "",
                   !.events = Append(@, "work")]

\* the body of the with statement ends, normally or by raising; the finally of
\* profile() then calls stop (pyinstrument.py:79-82)
CpuAfterWorkload(f, raised) ==
    [f EXCEPT !.phase = "exit", !.pc = "cp_check",
              !.pending = IF raised THEN WorkloadError ELSE "",
              !.events = Append(@, "work")]

CpuWorkload(t) ==
    /\ thr[t].pc = "work"
    /\ thr[t].op = "cpu_profile"
    /\ \E raised \in BOOLEAN :
          thr' = [thr EXCEPT ![t] = CpuAfterWorkload(@, raised)]
    /\ UNCHANGED <<aux, scenario, boot, calls, profiler_lock, curr_profiler, running, tracing,
                   traceback_limit, enabled_in_env, origin>>

\* ---------------------------------------------------------------- TracemallocProfiler
\* the frame after start() returned: in profile() the first snapshot follows
\* (tracemalloc.py:143-144)
MemStartReturns(f) ==
    IF f.phase = "enter_start"
    THEN [f EXCEPT !.phase = "enter_snap", !.pc = "sn_check",
                   !.opt = IdleFrame.opt, !.gc_ran = FALSE,
                   !.events = Append(@, "start")]
    ELSE Return(f, None, NoProfile)

\* the frame after snapshot() returned `profile`: in profile() it makes the
\* proxy and yields it (tracemalloc.py:144-147), or is given to the proxy's
\* stop and stop() follows (tracemalloc.py:149-150)
SnapshotReturns(f, profile) ==
    CASE f.phase = "enter_snap" ->
            [f EXCEPT !.phase = "work", !.pc = "work", !.heap_usage = 0,
                      !.profile_proxy = ProxyInit(profile),
                      !.given_start = profile, !.events = Append(@, "before")]
      [] f.phase = "exit_snap" ->
            [f EXCEPT !.phase = "exit_stop", !.pc = "st_check", !.heap_usage = 0,
                      !.profile_proxy = ProxyStop(@, profile),
                      !.given_stop = profile, !.events = Append(@, "after")]
      [] OTHER -> Return(f, None, profile)

\* the frame after stop() returned: the end of the finally of profile(), the
\* outcome of the with body reaches the caller (tracemalloc.py:146-150)
MemStopReturns(f) ==
    IF f.phase = "exit_stop"
    THEN IF f.pending = WorkloadError
         THEN Raise([f EXCEPT !.events = Append(@, "stop")], WorkloadError)
         ELSE Return([f EXCEPT !.events = Append(@, "stop")], None, NoProfile)
    ELSE Return(f, None, NoProfile)

\* profile() without try/finally: an exception of the body skips the second
\* snapshot and stop()
MemAfterWorkloadNoFinally(f, raised) ==
    IF raised
    THEN Raise([f EXCEPT !.events = Append(@, "work")], WorkloadError)
    ELSE [f EXCEPT !.phase = "exit_snap", !.pc = "sn_check", !.pending = "",
                   !.events = Append(@, "work")]

\* the body of the with statement ends, normally or by raising; the finally of
\* profile() then takes the second snapshot (tracemalloc.py:146-149)
MemAfterWorkload(f, raised) ==
    [f EXCEPT !.phase = "exit_snap", !.pc = "sn_check",
              !.pending = IF raised THEN WorkloadError ELSE "",
              !.events = Append(@, "work")]

\* a thread calls TracemallocProfiler.start(opt)
CallMemStart(t) ==
    /\ CanCall(t, "mem")
    /\ calls' = calls + 1
    /\ \E opt \in MemOptions :
          thr' = [thr EXCEPT ![t] =
              Begin("mem_start", "plain", "ms_check", opt, tracing, origin)]
    /\ UNCHANGED <<aux, scenario, boot, profiler_lock, curr_profiler, running, tracing,
                   traceback_limit, enabled_in_env, origin>>

\* a thread calls TracemallocProfiler.snapshot()
CallMemSnapshot(t) ==
    /\ CanCall(t, "mem")
    /\ calls' = calls + 1
    /\ thr' = [thr EXCEPT ![t] =
           Begin("mem_snapshot", "plain", "sn_check", IdleFrame.opt, tracing, origin)]
    /\ UNCHANGED <<aux, scenario, boot, profiler_lock, curr_profiler, running, tracing,
                   traceback_limit, enabled_in_env, origin>>

\* a thread calls TracemallocProfiler.stop()
CallMemStop(t) ==
    /\ CanCall(t, "mem")
    /\ calls' = calls + 1
    /\ thr' = [thr EXCEPT ![t] =
           Begin("mem_stop", "plain", "st_check", IdleFrame.opt, tracing, origin)]
    /\ UNCHANGED <<aux, scenario, boot, profiler_lock, curr_profiler, running, tracing,
                   traceback_limit, enabled_in_env, origin>>

\* a thread enters `with profiler.profile(opt)`: profile() calls start (tracemalloc.py:143)
CallMemProfile(t) ==
    /\ CanCall(t, "mem")
    /\ calls' = calls + 1
    /\ \E opt \in MemOptions :
          thr' = [thr EXCEPT ![t] =
              Begin("mem_profile", "enter_start", "ms_check", opt, tracing, origin)]
    /\ UNCHANGED <<aux, scenario, boot, profiler_lock, curr_profiler, running, tracing,
                   traceback_limit, enabled_in_env, origin>>

\* start() with its test left empty: it never refuses
MemStartNeverRefused == FALSE

\* the test of start() (tracemalloc.py:156)
MemStartRefused == tracing

\* start() that never names the environment variable
AlreadyStartedMessagePlain == AlreadyStarted

\* the message of the ProfilingAlreadyStarted of start() (tracemalloc.py:157-161)
AlreadyStartedMessage ==
    IF enabled_in_env THEN AlreadyStartedEnv ELSE AlreadyStarted

\* start() that collects garbage before its test: a refused start has run a pass
MemStartGcFirst(t) ==
    /\ thr[t].pc = "ms_check"
    /\ thr' = [thr EXCEPT ![t] =
           IF MemStartRefused
           THEN Raise([@ EXCEPT !.gc_ran = thr[t].opt.gc], AlreadyStartedMessage)
           ELSE [@ EXCEPT !.pc = "ms_gc"]]
    /\ UNCHANGED <<aux, scenario, boot, calls, profiler_lock, curr_profiler, running, tracing,
                   traceback_limit, enabled_in_env, origin>>

\* start(): if tracemalloc.is_tracing(): raise ProfilingAlreadyStarted (tracemalloc.py:156-161)
MemStartCheck(t) ==
    /\ thr[t].pc = "ms_check"
    /\ thr' = [thr EXCEPT ![t] =
           IF MemStartRefused
           THEN Raise(@, AlreadyStartedMessage)
           ELSE [@ EXCEPT !.pc = "ms_gc"]]
    /\ UNCHANGED <<aux, scenario, boot, calls, profiler_lock, curr_profiler, running, tracing,
                   traceback_limit, enabled_in_env, origin>>

\* start(): if opt.gc: gc.collect() (tracemalloc.py:163-164)
MemStartGc(t) ==
    /\ thr[t].pc = "ms_gc"
    /\ thr' = [thr EXCEPT ![t].pc = "ms_start", ![t].gc_ran = thr[t].opt.gc]
    /\ UNCHANGED <<aux, scenario, boot, calls, profiler_lock, curr_profiler, running, tracing,
                   traceback_limit, enabled_in_env, origin>>

\* start(): tracemalloc.start(opt.frames), which does nothing when the module
\* already traces (tracemalloc.py:166)
MemStartTrace(t) ==
    /\ thr[t].pc = "ms_start"
    /\ tracing' = TRUE
    /\ traceback_limit' = IF tracing THEN traceback_limit ELSE thr[t].opt.frames
    /\ origin' = IF tracing THEN origin ELSE "controller"
    /\ thr' = [thr EXCEPT ![t] = MemStartReturns(@)]
    /\ UNCHANGED <<aux, scenario, boot, calls, profiler_lock, curr_profiler, running, enabled_in_env>>

\* snapshot() with its test left empty: it never refuses
SnapshotNeverRefused == FALSE

\* the test of snapshot() (tracemalloc.py:172)
SnapshotRefused == ~tracing

\* snapshot(): if not tracemalloc.is_tracing(): raise ProfilingNotStarted (tracemalloc.py:172-173)
SnapshotCheck(t) ==
    /\ thr[t].pc = "sn_check"
    /\ thr' = [thr EXCEPT ![t] =
           IF SnapshotRefused
           THEN Raise(@, NotStarted)
           ELSE [@ EXCEPT !.pc = "sn_mem"]]
    /\ UNCHANGED <<aux, scenario, boot, calls, profiler_lock, curr_profiler, running, tracing,
                   traceback_limit, enabled_in_env, origin>>

\* tracemalloc.get_traced_memory()[0]: the current heap usage, 0 when not tracing
TracedMemory == IF tracing THEN 0..scenario.heap_max ELSE {0}

\* snapshot(): heap_usage, _ = tracemalloc.get_traced_memory() (tracemalloc.py:175)
SnapshotHeap(t) ==
    /\ thr[t].pc = "sn_mem"
    /\ \E h \in TracedMemory :
          thr' = [thr EXCEPT ![t].pc = "sn_take", ![t].heap_usage = h]
    /\ UNCHANGED <<aux, scenario, boot, calls, profiler_lock, curr_profiler, running, tracing,
                   traceback_limit, enabled_in_env, origin>>

\* snapshot(): return PointInTimeProfile(heap_usage, tracemalloc.take_snapshot());
\* take_snapshot() raises RuntimeError when the module does not trace (tracemalloc.py:177-180)
SnapshotTake(t) ==
    /\ thr[t].pc = "sn_take"
    /\ IF tracing
       THEN \E s \in 0..scenario.traces_max :
               thr' = [thr EXCEPT ![t] =
                          SnapshotReturns(@, PointInTimeProfile(@.heap_usage, s))]
       ELSE thr' = [thr EXCEPT ![t] = Raise(@, NotTracing)]
    /\ UNCHANGED <<aux, scenario, boot, calls, profiler_lock, curr_profiler, running, tracing,
                   traceback_limit, enabled_in_env, origin>>

\* stop() with its test left empty: it never refuses
MemStopNeverRefused == FALSE

\* the test of stop() (tracemalloc.py:186)
MemStopRefused == ~tracing

\* stop(): if not tracemalloc.is_tracing(): raise ProfilingNotStarted (tracemalloc.py:186-187)
MemStopCheck(t) ==
    /\ thr[t].pc = "st_check"
    /\ thr' = [thr EXCEPT ![t] =
           IF MemStopRefused
           THEN Raise(@, NotStarted)
           ELSE [@ EXCEPT !.pc = "st_stop"]]
    /\ UNCHANGED <<aux, scenario, boot, calls, profiler_lock, curr_profiler, running, tracing,
                   traceback_limit, enabled_in_env, origin>>

\* stop() that returns without switching the tracing off
MemStopLeavesTracing(t) ==
    /\ thr[t].pc = "st_stop"
    /\ thr' = [thr EXCEPT ![t] = MemStopReturns(@)]
    /\ UNCHANGED <<aux, scenario, boot, calls, profiler_lock, curr_profiler, running,
                   tracing, origin, traceback_limit, enabled_in_env>>

\* stop(): tracemalloc.stop(), which does nothing when the module does not
\* trace (tracemalloc.py:189).  The scopes of the other threads that had
\* started the session it ends are marked: their session is gone.
MemStopTrace(t) ==
    /\ thr[t].pc = "st_stop"
    /\ tracing' = FALSE
    /\ origin' = "none"
    /\ thr' = [u \in Threads |->
                 IF u = t THEN MemStopReturns(thr[t])
                 ELSE IF /\ tracing
                         /\ thr[u].op = "mem_profile"
                         /\ thr[u].pc # "done"
                         /\ thr[u].phase # "enter_start"
                      THEN [thr[u] EXCEPT !.stale = TRUE]
                      ELSE thr[u]]
    /\ UNCHANGED <<aux, scenario, boot, calls, profiler_lock, curr_profiler, running,
                   traceback_limit, enabled_in_env>>

\* the body of `with profiler.profile(opt) as profile_proxy` ends (tracemalloc.py:146-148)
MemWorkload(t) ==
    /\ thr[t].pc = "work"
    /\ thr[t].op = "mem_profile"
    /\ \E raised \in BOOLEAN :
          thr' = [thr EXCEPT ![t] = MemAfterWorkload(@, raised)]
    /\ UNCHANGED <<aux, scenario, boot, calls, profiler_lock, curr_profiler, running, tracing,
                   traceback_limit, enabled_in_env, origin>>

\* IntervalProfileProxy.get() on the proxy the scope yielded, called by the
\* with body or after the scope (tracemalloc.py:85-99)
ProxyGet(t) ==
    /\ thr[t].op = "mem_profile"
    /\ thr[t].pc \in {"work", "done"}
    /\ thr[t].profile_proxy.made
    /\ LET f == thr[t]
           v == ProxyGetValue(f.profile_proxy)
       IN  thr' = [thr EXCEPT ![t] =
               IF ProxyStopMissing(f.profile_proxy)
               THEN [f EXCEPT !.got = [status |-> "raise", exc |-> StopProfileNotSet,
                                       interval |-> NoInterval,
                                       stopped |-> (f.given_stop # NoProfile)]]
               ELSE [f EXCEPT !.got = [status |-> "return", exc |-> "", interval |-> v,
                                       stopped |-> (f.given_stop # NoProfile)],
                              !.profile_proxy.interval_profile = v]]
    /\ UNCHANGED <<aux, scenario, boot, calls, profiler_lock, curr_profiler, running, tracing,
                   traceback_limit, enabled_in_env, origin>>

\* ---------------------------------------------------------------- requests
\* The middleware makes the handler of a request, enters its profile() around
\* the request and renders afterwards (contrib/starlette/middleware.py:61-68).

\* get_profiler(ProfilerType(profiler_type))(query_params): the handler is made,
\* or its __init__ raises (middleware.py:61); a thread serves one such request
HandlerInit(t) ==
    /\ hnd[t].stage = "none"
    /\ \E kind \in scenario.kinds :
          /\ CanCall(t, kind)
          /\ \E query \in Queries(kind) :
                hnd' = [hnd EXCEPT ![t] = IF kind = "mem" THEN MemHandlerInit(query)
                                          ELSE CpuHandlerInit(query)]
    /\ calls' = calls + 1
    /\ UNCHANGED <<rnd, fmt, zc, scenario, boot, profiler_lock, curr_profiler, running,
                   tracing, traceback_limit, enabled_in_env, origin, thr>>

\* `with profiler.profile()` on the handler: profile() of the handler enters
\* profile(self._opt) of the controller (tracemalloc.py:462-463,
\* pyinstrument.py:232-233)
HandlerProfile(t) ==
    /\ hnd[t].stage = "made"
    /\ CanCall(t, hnd[t].kind)
    /\ calls' = calls + 1
    /\ hnd' = [hnd EXCEPT ![t].stage = "entered", ![t].at = calls + 1]
    /\ thr' = [thr EXCEPT ![t] =
           IF hnd[t].kind = "mem"
           THEN Begin("mem_profile", "enter_start", "ms_check", hnd[t].opt, tracing, origin)
           ELSE Begin("cpu_profile", "enter", "cs_check", IdleFrame.opt, is_profiling, "none")]
    /\ UNCHANGED <<rnd, fmt, zc, scenario, boot, profiler_lock, curr_profiler, running,
                   tracing, traceback_limit, enabled_in_env, origin>>

\* the scope of the controller yielded: self._interval_profile = profile_proxy,
\* self._profiler = p (tracemalloc.py:464, pyinstrument.py:234)
HandlerBind(t) ==
    /\ hnd[t].stage = "entered"
    /\ hnd[t].at = calls
    /\ thr[t].pc = "work"
    /\ hnd' = [hnd EXCEPT ![t].stage = "bound", ![t].bound = TRUE,
                          ![t].profiler = thr[t].profiler]
    /\ UNCHANGED <<rnd, fmt, zc, scenario, boot, calls, profiler_lock, curr_profiler, running,
                   tracing, traceback_limit, enabled_in_env, origin, thr>>

\* the request runs inside the scope (middleware.py:65-66); the handler
\* yields to it only after it kept what the scope yielded
\* (tracemalloc.py:464-465, pyinstrument.py:233-234)
ReqCpuWorkload(t) == ~(hnd[t].stage = "entered" /\ hnd[t].at = calls) /\ CpuWorkload(t)

ReqMemWorkload(t) == ~(hnd[t].stage = "entered" /\ hnd[t].at = calls) /\ MemWorkload(t)

\* render_profile() of the memory profiler (tracemalloc.py:467-474)
MemRenderProfile(h, proxy, now) ==
    IF ~h.bound
    THEN RenderRaised("RuntimeError: Interval profile is not set", proxy)
    ELSE IF get_renderer(MemProfileRenderers, h.format).status = "raise"
    THEN RenderRaised(get_renderer(MemProfileRenderers, h.format).exc, proxy)
    ELSE MemRender(get_renderer(MemProfileRenderers, h.format).renderer, proxy, h.renderer_opt, now)

\* render_profile() of the CPU profiler (pyinstrument.py:237-243)
CpuRenderProfile(h, now) ==
    IF h.profiler = None
    THEN RenderRaised(NotStarted, [id |-> None])
    ELSE IF get_renderer(CpuProfileRenderers, h.format).status = "raise"
    THEN RenderRaised(get_renderer(CpuProfileRenderers, h.format).exc, [id |-> h.profiler])
    ELSE CpuRender(get_renderer(CpuProfileRenderers, h.format).renderer, [id |-> h.profiler], now)

\* profiler.render_profile(), after the scope or without any (middleware.py:68)
HandlerRender(t) ==
    /\ hnd[t].stage \in {"made", "entered", "bound"}
    /\ hnd[t].out.status = "none"
    /\ Free(t)
    /\ hnd[t].stage # "made" => hnd[t].at = calls
    /\ \E now \in Timestamps :
          LET out == IF hnd[t].kind = "mem"
                     THEN MemRenderProfile(hnd[t], thr[t].profile_proxy, now)
                     ELSE CpuRenderProfile(hnd[t], now)
          IN  /\ hnd' = [hnd EXCEPT ![t].out = out]
              /\ thr' = IF hnd[t].kind = "mem" /\ hnd[t].bound
                        THEN [thr EXCEPT ![t].profile_proxy = out.profile]
                        ELSE thr
    /\ UNCHANGED <<rnd, fmt, zc, scenario, boot, calls, profiler_lock, curr_profiler, running,
                   tracing, traceback_limit, enabled_in_env, origin>>

\* ---------------------------------------------------------------- profiling/memory.py
\* TracemallocProfiler of profiling/memory.py, called by a single caller, one
\* action per call.  Each method tests tracemalloc.is_tracing() and goes on
\* whatever the answer: the body of the test is `...`.

\* start(frames): tracemalloc.start(frames) (memory.py:212-220)
LegacyStart(t) ==
    /\ CanCall(t, "legacy")
    /\ calls' = calls + 1
    /\ \E frames \in 1..MaxFrames :
          /\ traceback_limit' = IF tracing THEN traceback_limit ELSE frames
          /\ thr' = [thr EXCEPT ![t] =
                 Return(Begin("legacy_start", "plain", "done",
                              [gc |-> FALSE, frames |-> frames], tracing, origin),
                        None, NoProfile)]
    /\ tracing' = TRUE
    /\ origin' = IF tracing THEN origin ELSE "controller"
    /\ UNCHANGED <<aux, scenario, boot, profiler_lock, curr_profiler, running,
                   enabled_in_env>>

\* snapshot(): get_traced_memory() and take_snapshot(), which raises
\* RuntimeError when the module does not trace; the pair returned is written as
\* a PointInTimeProfile (memory.py:222-232)
LegacySnapshot(t) ==
    /\ CanCall(t, "legacy")
    /\ calls' = calls + 1
    /\ IF tracing
       THEN \E h \in TracedMemory, s \in 0..scenario.traces_max :
               thr' = [thr EXCEPT ![t] =
                   Return(Begin("legacy_snapshot", "plain", "done", IdleFrame.opt,
                                tracing, origin),
                          None, PointInTimeProfile(h, s))]
       ELSE thr' = [thr EXCEPT ![t] =
                   Raise(Begin("legacy_snapshot", "plain", "done", IdleFrame.opt,
                               tracing, origin),
                         NotTracing)]
    /\ UNCHANGED <<aux, scenario, boot, profiler_lock, curr_profiler, running, tracing,
                   traceback_limit, enabled_in_env, origin>>

\* stop(): tracemalloc.stop() (memory.py:234-241)
LegacyStop(t) ==
    /\ CanCall(t, "legacy")
    /\ calls' = calls + 1
    /\ tracing' = FALSE
    /\ origin' = "none"
    /\ thr' = [thr EXCEPT ![t] =
           Return(Begin("legacy_stop", "plain", "done", IdleFrame.opt, tracing, origin),
                  None, NoProfile)]
    /\ UNCHANGED <<aux, scenario, boot, profiler_lock, curr_profiler, running,
                   traceback_limit, enabled_in_env>>

\* ---------------------------------------------------------------- specification
Next ==
    \E t \in Threads :
        \/ CallCpuStart(t) \/ CallCpuStop(t) \/ CallCpuProfile(t)
        \/ CpuStartCheck(t) \/ CpuStartLock(t) \/ CpuStartNative(t)
        \/ CpuStartAssign(t) \/ CpuStartUnlock(t) \/ CpuStartReturn(t)
        \/ CpuStopCheck(t) \/ CpuStopLock(t) \/ CpuStopRecheck(t)
        \/ CpuStopNative(t) \/ CpuStopSwap(t) \/ CpuStopUnlock(t)
        \/ CpuWorkload(t)
        \/ CallMemStart(t) \/ CallMemSnapshot(t) \/ CallMemStop(t) \/ CallMemProfile(t)
        \/ MemStartCheck(t) \/ MemStartGc(t) \/ MemStartTrace(t)
        \/ SnapshotCheck(t) \/ SnapshotHeap(t) \/ SnapshotTake(t)
        \/ MemStopCheck(t) \/ MemStopTrace(t)
        \/ MemWorkload(t)

\* a proxy is reached only by the thread whose scope made it: its get() is
\* exercised by the single caller
NextSeq == Next \/ \E t \in Threads : ProxyGet(t)

\* concurrent callers, all interleavings
Spec == Init /\ [][Next]_vars

\* a single caller
SpecSeq == InitSeq /\ [][NextSeq]_vars

\* format_bytes applied to one argument
InitBytes ==
    /\ InitShared
    /\ ~tracing /\ ~enabled_in_env
    /\ scenario = [callers |-> {}, kinds |-> {}, call_budget |-> 0,
                   heap_max |-> 0, traces_max |-> 0, native_faults |-> FALSE]
    /\ hnd = [t \in Threads |-> NoHandler]
    /\ rnd = NoRender
    /\ zc = NoContainer
    /\ fmt \in {[NoFormat EXCEPT !.stage = "input", !.value = v] : v \in BytesInputs}

SpecBytes == InitBytes /\ [][FormatBytes]_vars

\* one rendering of one profile
InitRender ==
    /\ InitShared
    /\ ~tracing /\ ~enabled_in_env
    /\ scenario = [callers |-> {}, kinds |-> {}, call_budget |-> 0,
                   heap_max |-> 0, traces_max |-> 0, native_faults |-> FALSE]
    /\ hnd = [t \in Threads |-> NoHandler]
    /\ fmt = NoFormat
    /\ zc = NoContainer
    /\ rnd \in RenderInputs

SpecRender == InitRender /\ [][GetRenderer \/ Render]_vars

\* a single caller that serves requests through handlers and calls the
\* controllers directly as well
InitReq ==
    /\ InitShared
    /\ InitAux
    /\ scenario = [callers |-> {"t1"}, kinds |-> {"cpu", "mem"},
                   call_budget |-> MaxReqCalls,
                   heap_max |-> 0, traces_max |-> 0, native_faults |-> FALSE]

SpecReq ==
    InitReq /\ [][
    \E t \in Threads :
        \/ HandlerInit(t) \/ HandlerProfile(t) \/ HandlerBind(t) \/ HandlerRender(t)
        \/ ReqCpuWorkload(t) \/ ReqMemWorkload(t)
        \/ CallCpuStart(t) \/ CallCpuStop(t) \/ CallCpuProfile(t)
        \/ CpuStartCheck(t) \/ CpuStartLock(t) \/ CpuStartNative(t)
        \/ CpuStartAssign(t) \/ CpuStartUnlock(t) \/ CpuStartReturn(t)
        \/ CpuStopCheck(t) \/ CpuStopLock(t) \/ CpuStopRecheck(t)
        \/ CpuStopNative(t) \/ CpuStopSwap(t) \/ CpuStopUnlock(t)
        \/ CallMemStart(t) \/ CallMemSnapshot(t) \/ CallMemStop(t) \/ CallMemProfile(t)
        \/ MemStartCheck(t) \/ MemStartGc(t) \/ MemStartTrace(t)
        \/ SnapshotCheck(t) \/ SnapshotHeap(t) \/ SnapshotTake(t)
        \/ MemStopCheck(t) \/ MemStopTrace(t)
        \/ ProxyGet(t)
    ]_vars
\* a single caller of the controller of profiling/memory.py
InitLegacy ==
    /\ InitShared
    /\ InitAux
    /\ scenario = [callers |-> {"t1"}, kinds |-> {"legacy"},
                   call_budget |-> MaxSeqCalls,
                   heap_max |-> MaxHeap, traces_max |-> MaxTraces,
                   native_faults |-> FALSE]

SpecLegacy ==
    InitLegacy /\ [][\E t \in Threads : LegacyStart(t) \/ LegacySnapshot(t) \/ LegacyStop(t)]_vars

\* one ZContainer, made with any id and tag, then filled and rendered
InitContainer ==
    /\ InitShared
    /\ ~tracing /\ ~enabled_in_env
    /\ scenario = [callers |-> {}, kinds |-> {}, call_budget |-> 0,
                   heap_max |-> 0, traces_max |-> 0, native_faults |-> FALSE]
    /\ hnd = [t \in Threads |-> NoHandler]
    /\ rnd = NoRender
    /\ fmt = NoFormat
    /\ zc \in {[NoContainer EXCEPT !.stage = "made", !.container = ZContainer(id, tag)] :
                 id \in {NoId, "", "main"}, tag \in {"div", "main"}}

SpecContainer ==
    InitContainer /\ [][ContainerAdd \/ ContainerOr \/ ContainerToHtml \/ ContainerToJson]_vars

\* a statement of start(), of stop() or of the body of a scope executed by
\* thread t: what the scheduler runs once the call has been issued
CpuStep(t) ==
    \/ CpuStartCheck(t) \/ CpuStartLock(t) \/ CpuStartNative(t)
    \/ CpuStartAssign(t) \/ CpuStartUnlock(t) \/ CpuStartReturn(t)
    \/ CpuStopCheck(t) \/ CpuStopLock(t) \/ CpuStopRecheck(t)
    \/ CpuStopNative(t) \/ CpuStopSwap(t) \/ CpuStopUnlock(t)
    \/ CpuWorkload(t)

\* concurrent callers of the CPU controller whose native profiler may raise
\* in start() and in stop()
InitLive ==
    /\ InitShared
    /\ InitAux
    /\ ~tracing /\ ~enabled_in_env
    /\ scenario = [callers |-> Threads, kinds |-> {"cpu"}, call_budget |-> MaxCalls,
                   heap_max |-> 0, traces_max |-> 0, native_faults |-> TRUE]

\* every thread that can execute a statement is eventually scheduled
SpecLive ==
    /\ InitLive
    /\ [][\E t \in Threads :
             \/ CallCpuStart(t) \/ CallCpuStop(t) \/ CallCpuProfile(t)
             \/ CpuStep(t)]_vars
    /\ \A t \in Threads : WF_vars(CpuStep(t))

\* ---------------------------------------------------------------- properties
Done(t, op) == thr[t].op = op /\ thr[t].pc = "done"

Succeeded(t) == thr[t].out.status = "return"

RaisedAlreadyStarted(t) ==
    /\ thr[t].out.status = "raise"
    /\ thr[t].out.exc \in {AlreadyStarted, AlreadyStartedEnv}

\* the CPU session is IDLE: no current profiler, no native profiler running
CpuIdle == curr_profiler = None /\ running = {}

\* C1: two start() calls of the CPU controller, both issued while the session
\* is IDLE and nothing else called: exactly one returns a profiler and the
\* other raises ProfilingAlreadyStarted.
C1_ExactlyOneCpuStart ==
    (/\ calls = 2
     /\ \A t \in Threads : Done(t, "cpu_start") /\ ~thr[t].entry_active)
    => \E t \in Threads : \E u \in Threads \ {t} :
          /\ Succeeded(t) /\ thr[t].out.profiler # None
          /\ thr[u].out = Raised(AlreadyStarted)

\* C2: with a single caller, a start() (called directly or by profile())
\* issued while the session of its controller is ACTIVE stops at its test and
\* raises ProfilingAlreadyStarted; it never returns normally.
C2_StartWhileActiveRaises ==
    \A t \in Threads :
        (/\ thr[t].op \in {"cpu_start", "cpu_profile", "mem_start", "mem_profile"}
         /\ thr[t].entry_active)
        => /\ thr[t].pc \in {"cs_check", "ms_check", "done"}
           /\ thr[t].pc = "done" => RaisedAlreadyStarted(t)

C2_Witness ==
    /\ Done("t1", "mem_start")
    /\ thr["t1"].entry_active
    /\ thr["t1"].entry_origin = "controller"
    /\ RaisedAlreadyStarted("t1")
    /\ calls >= 3

\* C3: with a single caller, a stop() issued while the session of its
\* controller is IDLE stops at its test, raises ProfilingNotStarted and the
\* session is IDLE afterwards.
C3_StopWhileIdleRaises ==
    \A t \in Threads :
        /\ (thr[t].op = "cpu_stop" /\ ~thr[t].entry_active)
           => /\ thr[t].pc \in {"cp_check", "done"}
              /\ CpuIdle
              /\ thr[t].pc = "done" => thr[t].out = Raised(NotStarted)
        /\ (thr[t].op = "mem_stop" /\ ~thr[t].entry_active)
           => /\ thr[t].pc \in {"st_check", "done"}
              /\ ~tracing
              /\ thr[t].pc = "done" => thr[t].out = Raised(NotStarted)

C3_Witness ==
    /\ Done("t1", "mem_stop")
    /\ ~thr["t1"].entry_active
    /\ thr["t1"].out = Raised(NotStarted)
    /\ calls >= 3

\* C4: with a single caller, snapshot() raises ProfilingNotStarted when the
\* memory session is IDLE; when it is ACTIVE it returns a PointInTimeProfile
\* (heap usage and snapshot) and the session is ACTIVE during and after the call.
C4_SnapshotContract ==
    \A t \in Threads :
        thr[t].op = "mem_snapshot"
        => /\ tracing = thr[t].entry_active
           /\ origin = thr[t].entry_origin
           /\ thr[t].pc = "done" =>
                 IF thr[t].entry_active
                 THEN /\ Succeeded(t)
                      /\ thr[t].out.profile.heap_usage_bytes \in 0..scenario.heap_max
                      /\ thr[t].out.profile.snapshot \in 0..scenario.traces_max
                 ELSE thr[t].out = Raised(NotStarted)

C4_Witness ==
    /\ Done("t1", "mem_snapshot")
    /\ Succeeded("t1")
    /\ thr["t1"].out.profile # NoProfile
    /\ origin = "controller"
    /\ tracing
    /\ calls >= 3

\* C5: with a single caller, a profile() scope of either controller entered
\* while the session is IDLE leaves the session IDLE when it has exited, and
\* the caller gets the outcome of the body: a normal return, or its error.
C5_ScopeLeavesIdle ==
    \A t \in Threads :
        /\ (Done(t, "cpu_profile") /\ ~thr[t].entry_active)
           => /\ CpuIdle
              /\ thr[t].out \in {Returned(None, NoProfile), Raised(WorkloadError)}
        /\ (Done(t, "mem_profile") /\ ~thr[t].entry_active)
           => /\ ~tracing
              /\ thr[t].out \in {Returned(None, NoProfile), Raised(WorkloadError)}

C5_Witness ==
    /\ Done("t1", "cpu_profile")
    /\ ~thr["t1"].entry_active
    /\ thr["t1"].out = Raised(WorkloadError)
    /\ CpuIdle

ScopeEvents == <<"start", "before", "work", "after", "stop">>

\* C6: in a memory profile() scope the events happen in the order start,
\* before-snapshot stored in the proxy, body, after-snapshot stored in the
\* proxy, stop; the result or the error of the body reaches the caller only
\* after all five, so the proxy then holds its stop profile and stop() has
\* returned.
C6_ScopeOrder ==
    \A t \in Threads :
        thr[t].op = "mem_profile"
        => /\ Len(thr[t].events) <= 5
           /\ thr[t].events = SubSeq(ScopeEvents, 1, Len(thr[t].events))
           /\ (Len(thr[t].events) >= 2) = thr[t].profile_proxy.made
           /\ (Len(thr[t].events) >= 4) = (thr[t].profile_proxy.stop_profile # NoProfile)
           /\ (thr[t].pc = "done"
               /\ thr[t].out \in {Returned(None, NoProfile), Raised(WorkloadError)})
              => thr[t].events = ScopeEvents

C6_Witness ==
    /\ Done("t1", "mem_profile")
    /\ thr["t1"].out = Raised(WorkloadError)
    /\ thr["t1"].events = ScopeEvents
    /\ thr["t1"].profile_proxy.stop_profile # NoProfile

\* C7: two start() calls of the memory controller, both issued while the
\* session is IDLE and nothing else called: exactly one returns and the other
\* raises ProfilingAlreadyStarted.
C7_ExactlyOneMemStart ==
    (/\ calls = 2
     /\ \A t \in Threads : Done(t, "mem_start") /\ ~thr[t].entry_active)
    => \E t \in Threads : \E u \in Threads \ {t} :
          Succeeded(t) /\ RaisedAlreadyStarted(u)

\* C8: a thread of start() or stop() that is about to write _curr_profiler
\* holds the lock since the test that let it pass, so no other thread has
\* written _curr_profiler since that test.
C8_CheckAndToggleAtomic ==
    \A t \in Threads :
        thr[t].pc \in {"cs_assign", "cp_swap"}
        => profiler_lock = t /\ ~thr[t].stale

\* C9: with a single caller, a start() issued while the tracing that the
\* PYTHONTRACEMALLOC variable switched on is still on raises
\* ProfilingAlreadyStarted with the message naming the variable, runs no
\* garbage collection, and the tracing stays on with the frame limit it had.
C9_EnvEnabledStart ==
    \A t \in Threads :
        (/\ Done(t, "mem_start")
         /\ thr[t].entry_origin = "external"
         /\ enabled_in_env)
        => /\ thr[t].out = Raised(AlreadyStartedEnv)
           /\ ~thr[t].gc_ran
           /\ tracing
           /\ origin = "external"
           /\ traceback_limit = boot.traceback_limit

C9_Witness ==
    /\ Done("t1", "mem_start")
    /\ thr["t1"].entry_origin = "external"
    /\ enabled_in_env
    /\ boot.tracing
    /\ thr["t1"].out = Raised(AlreadyStartedEnv)
    /\ traceback_limit = MaxFrames

\* C10: the proxy holds the profile it was constructed with; a get() called
\* before stop(stop_profile) raises, a get() called after it returns the
\* IntervalProfile whose start fields are the profile given at construction
\* and whose stop fields are the profile given to stop().
C10_ProxyContract ==
    \A t \in Threads :
        thr[t].profile_proxy.made
        => /\ thr[t].given_start # NoProfile
           /\ thr[t].profile_proxy.start_profile = thr[t].given_start
           /\ thr[t].profile_proxy.stop_profile = thr[t].given_stop
           /\ thr[t].got.status = "raise"
              => ~thr[t].got.stopped /\ thr[t].got.exc = StopProfileNotSet
           /\ thr[t].got.status = "return"
              => /\ thr[t].got.stopped
                 /\ thr[t].got.interval =
                       [start_heap_usage_bytes |-> thr[t].given_start.heap_usage_bytes,
                        start_snapshot         |-> thr[t].given_start.snapshot,
                        stop_heap_usage_bytes  |-> thr[t].given_stop.heap_usage_bytes,
                        stop_snapshot          |-> thr[t].given_stop.snapshot]

C10_Witness ==
    /\ thr["t1"].got.status = "return"
    /\ thr["t1"].given_start.heap_usage_bytes # thr["t1"].given_stop.heap_usage_bytes
    /\ thr["t1"].given_start.snapshot # thr["t1"].given_stop.snapshot
    /\ thr["t1"].got.interval.stop_heap_usage_bytes = thr["t1"].given_stop.heap_usage_bytes


\* ---------------------------------------------------------------- handlers: claims
\* render_profile() was called on a handler whose profile() was never entered
RenderedUnentered(t) == hnd[t].stage = "made" /\ hnd[t].out.status # "none"

\* C11: for the handler of the memory and of the CPU profiler, render_profile()
\* on a handler whose profile() scope was never entered fails with
\* ProfilingNotStarted and produces no RenderedProfile
C11_RenderBeforeScope ==
    \A t \in Threads :
        RenderedUnentered(t) =>
            /\ hnd[t].out.status = "raise"
            /\ hnd[t].out.exc = NotStarted
            /\ hnd[t].out.rendered = NoRendered

\* ---------------------------------------------------------------- renderers: claims
Rendered == rnd.stage = "done" /\ rnd.out.status = "return"

\* a rendering of statistics: by the lineno or the traceback renderer
RenderedStats == Rendered /\ rnd.kind = "mem" /\ rnd.format \in {"lineno", "traceback"}

\* the format names the claims register for a kind
RegisteredFormats(kind) ==
    IF kind = "mem" THEN {"lineno", "traceback", "pickle"}
                    ELSE {"html", "json", "speedscope"}

\* the renderer class the claims register for a format of a kind
RegisteredRenderer(kind, format) ==
    CASE kind = "mem" /\ format = "lineno"     -> "LinenoSnapshotRenderer"
      [] kind = "mem" /\ format = "traceback"  -> "TracebackSnapshotRender"
      [] kind = "mem" /\ format = "pickle"     -> "PickleSnapshotRenderer"
      [] kind = "cpu" /\ format = "html"       -> "HTMLRenderer"
      [] kind = "cpu" /\ format = "json"       -> "JSONRenderer"
      [] kind = "cpu" /\ format = "speedscope" -> "SpeedscopeRenderer"
      [] OTHER -> "none"

\* C12: get_renderer(format) of a kind returns the renderer registered for a
\* registered format, and for every other format raises an error that lists
\* exactly the registered format names of the kind
C12_GetRendererContract ==
    rnd.stage \in {"renderer", "done"} =>
        IF rnd.format \in RegisteredFormats(rnd.kind)
        THEN /\ rnd.found.status = "return"
             /\ rnd.found.renderer.name = RegisteredRenderer(rnd.kind, rnd.format)
        ELSE /\ rnd.stage = "done"
             /\ rnd.found.status = "raise"
             /\ rnd.found.exc = InvalidProfileFormat
             /\ rnd.out.status = "none"
             /\ Len(rnd.found.formats) = Cardinality(RegisteredFormats(rnd.kind))
             /\ {rnd.found.formats[i] : i \in 1..Len(rnd.found.formats)}
                    = RegisteredFormats(rnd.kind)

\* the memory profiler was asked for a format of the CPU profiler and refused it
C12_Witness ==
    /\ rnd.stage = "done"
    /\ rnd.kind = "mem"
    /\ rnd.format = "html"
    /\ rnd.found.status = "raise"

\* the format a handler was asked for is not registered for its kind
FormatRefused(h) ==
    /\ h.kind \in {"mem", "cpu"}
    /\ Get(h.query, "format", IF h.kind = "mem" THEN "lineno" ELSE "html")
           \notin RegisteredFormats(h.kind)

\* the state of the sessions and of the calls in progress
session == <<profiler_lock, curr_profiler, running, tracing, traceback_limit,
             enabled_in_env, origin, thr>>

\* C13: a request whose format is not registered for the kind is rejected when
\* its handler is constructed: the constructor raises, so profile() is never
\* entered on it (no session started, no workload run under profiling), and
\* the construction leaves the state of the sessions as it was
C13_UnregisteredFormatRejected ==
    [][\A t \in Threads :
          FormatRefused(hnd'[t]) =>
              /\ hnd'[t].stage = "rejected"
              /\ hnd'[t].error # ""
              /\ hnd'[t].at = 0
              /\ hnd'[t] # hnd[t] => UNCHANGED session]_vars

\* a request for a format of the other kind was rejected while a session was active
C13_Witness ==
    \E t \in Threads :
        /\ hnd[t].stage = "rejected"
        /\ hnd[t].error = "ValueError: not a valid member of the enum"
        /\ FormatRefused(hnd[t])
        /\ hnd[t].query.format \in {"html", "lineno"}
        /\ (tracing \/ is_profiling)

\* the options a handler was asked for are out of range: frames < 1 for the
\* memory profiler, interval <= 0 for the CPU profiler
OptionsOutOfRange(h) ==
    \/ /\ h.kind = "mem"
       /\ Get(h.query, "frames", "30") \in DOMAIN IntOf
       /\ IntOf[Get(h.query, "frames", "30")] < 1
    \/ /\ h.kind = "cpu"
       /\ Get(h.query, "interval", "0.001") \in DOMAIN FloatOf
       /\ FloatOf[Get(h.query, "interval", "0.001")] <= 0

\* C14: constructing the ProfileOptions of the memory profiler with frames < 1,
\* or those of the CPU profiler with interval <= 0, fails at construction, so
\* that no handler exists whose start() could be issued with them
C14_OptionsValidated ==
    \A t \in Threads :
        OptionsOutOfRange(hnd[t]) =>
            /\ hnd[t].stage = "rejected"
            /\ hnd[t].error # ""

\* the (mime type, render mode) the claim fixes for a format
FixedPair(format) ==
    CASE format = "lineno"     -> <<MimeType.JSON, RenderMode.VIEW>>
      [] format = "traceback"  -> <<MimeType.JSON, RenderMode.VIEW>>
      [] format = "pickle"     -> <<MimeType.BINARY, RenderMode.DOWNLOAD>>
      [] format = "html"       -> <<MimeType.HTML, RenderMode.VIEW>>
      [] format = "json"       -> <<MimeType.JSON, RenderMode.DOWNLOAD>>
      [] format = "speedscope" -> <<MimeType.JSON, RenderMode.DOWNLOAD>>
      [] OTHER -> <<"", "">>

\* C15: the RenderedProfile of every registered format carries the fixed
\* (mime type, render mode) of the format, and every DOWNLOAD one has a
\* generated file name that is not empty and ends in the file extension of
\* its renderer
C15_FormatTable ==
    Rendered =>
        LET r == rnd.out.rendered
        IN  /\ <<r.mime_type, r.render_mode>> = FixedPair(rnd.format)
            /\ r.render_mode = RenderMode.DOWNLOAD =>
                  /\ Len(r.file_name) >= 2
                  /\ r.file_name[Len(r.file_name)] = rnd.found.renderer.file_ext
                  /\ r.file_name[Len(r.file_name)] # ""
                  /\ r.file_name[Len(r.file_name) - 1] = "."

\* a pickle was rendered: a download with a generated name
C15_Witness ==
    /\ Rendered
    /\ rnd.format = "pickle"
    /\ rnd.out.rendered.render_mode = RenderMode.DOWNLOAD
    /\ rnd.out.rendered.file_name # <<>>

\* the interval a rendering was computed from: the IntervalProfile given, or
\* the one the proxy given built
IntervalGiven ==
    IF IsIntervalProfile(rnd.out.profile)
    THEN rnd.out.profile
    ELSE rnd.out.profile.interval_profile

\* the statistics in the order of the sampler: of the snapshot of a
\* point-in-time profile, or of the comparison of the two snapshots of an interval
SamplerStats ==
    IF IsPointInTimeProfile(rnd.out.profile)
    THEN Statistics(rnd.out.profile.snapshot, rnd.format,
                    rnd.format = "lineno" /\ rnd.opt.cumulative)
    ELSE CompareTo(IntervalGiven.stop_snapshot, IntervalGiven.start_snapshot,
                   rnd.format, rnd.format = "lineno" /\ rnd.opt.cumulative)

\* the first k statistics of the sampler, as the renderer writes them
IsPrefixOfSampler(stats, k) ==
    /\ Len(stats) = k
    /\ \A i \in 1..k :
          /\ stats[i].stat = SamplerStats[i].key
          /\ stats[i].mem_blocks_size_bytes = SamplerStats[i].size
          /\ stats[i].mem_blocks_count = SamplerStats[i].count

\* C16: for every count >= 0 and every list of n statistics the lineno and
\* the traceback renderer output exactly the first min(count, n) statistics,
\* in the order of the sampler; the output is never longer than count
C16_TopCount ==
    (RenderedStats /\ rnd.opt.count >= 0) =>
        LET stats == rnd.out.rendered.content.stats
            n     == Len(SamplerStats)
        IN  /\ IsPrefixOfSampler(stats, IF rnd.opt.count < n THEN rnd.opt.count ELSE n)
            /\ Len(stats) <= rnd.opt.count

\* a list of statistics was cut: count is positive and below n
C16_Witness ==
    /\ RenderedStats
    /\ rnd.opt.count >= 1
    /\ rnd.opt.count < Len(SamplerStats)
    /\ Len(rnd.out.rendered.content.stats) = rnd.opt.count

\* the rendering is that of an interval
RenderedInterval == RenderedStats /\ ~IsPointInTimeProfile(rnd.out.profile)

\* C17: for every count <= 0, zero and every negative count, the lineno and
\* the traceback renderer return an empty statistics list, and the heap
\* summary (heap_current_bytes; heap_diff_bytes for an interval) is present
C17_NonPositiveCountEmpty ==
    (RenderedStats /\ rnd.opt.count <= 0) =>
        LET content == rnd.out.rendered.content
        IN  /\ content.stats = <<>>
            /\ "heap_current_bytes" \in DOMAIN content
            /\ RenderedInterval => "heap_diff_bytes" \in DOMAIN content

\* C18: for every interval profile with start heap usage B1 and stop heap
\* usage B2 the lineno and the traceback renderer output heap_diff_bytes =
\* B2 - B1 and heap_current_bytes = B2; for a point-in-time profile they
\* output heap_current_bytes only
C18_HeapSummary ==
    RenderedStats =>
        LET content == rnd.out.rendered.content
        IN  IF RenderedInterval
            THEN /\ content.heap_diff_bytes =
                        IntervalGiven.stop_heap_usage_bytes
                            - IntervalGiven.start_heap_usage_bytes
                 /\ content.heap_current_bytes = IntervalGiven.stop_heap_usage_bytes
            ELSE /\ content.heap_current_bytes = rnd.out.profile.heap_usage_bytes
                 /\ "heap_diff_bytes" \notin DOMAIN content
                 /\ "heap_diff" \notin DOMAIN content

\* an interval over which the heap shrank was rendered: B2 < B1
C18_Witness ==
    /\ RenderedInterval
    /\ IntervalGiven.stop_heap_usage_bytes < IntervalGiven.start_heap_usage_bytes
    /\ rnd.out.rendered.content.heap_diff_bytes < 0

\* the unit of the claim: the smallest k in 0..6 with |v| / 1024^k < 1024,
\* that is |v| < 1024^(k+1), and YB when there is none
UnitByMagnitude(mag) ==
    LET ks == {k \in 0..(Len(Units) - 1) : Len(mag) <= k + 1}
    IN  IF ks = {} THEN "YB"
        ELSE Units[1 + CHOOSE k \in ks : \A j \in ks : k <= j]

\* the printed number is not 0.0
PrintedNonZero(text) == text.whole # <<>> \/ text.tenth # 0

\* C19, over the integers: format_bytes returns for every integer, in the unit of the
\* smallest k with |v| / 1024^k < 1024 (YB when none), with the sign of v
C19_UnitOfEveryInteger ==
    fmt.stage = "done" =>
        /\ fmt.out.status = "return"
        /\ fmt.out.unit = UnitByMagnitude(fmt.value.mag)
        /\ fmt.out.neg = fmt.value.neg
        /\ PrintedNonZero(fmt.out) <=> fmt.value.mag # <<>>

\* C19, over the floats: format_bytes formats float(v).  For every integer that a
\* float holds exactly (every |v| <= 2^53 among them) the unit is that of the
\* smallest k with |v| / 1024^k < 1024, YB when none; for every other integer
\* in the range of floats it is that unit of the nearest float; the printed
\* number has the sign of v and is 0.0 only for 0; from 2^1024 - 2^970 on
\* float(v) raises OverflowError and nothing is returned
C19_UnitOfFloat ==
    fmt.stage = "done" =>
        IF InDoubleRange(fmt.value.mag)
        THEN /\ fmt.out.status = "return"
             /\ fmt.out.unit = UnitByMagnitude(ToDouble(fmt.value.mag))
             /\ (BitLength(fmt.value.mag) <= DoubleBits =>
                    fmt.out.unit = UnitByMagnitude(fmt.value.mag))
             /\ fmt.out.neg = fmt.value.neg
             /\ PrintedNonZero(fmt.out) <=> fmt.value.mag # <<>>
        ELSE fmt.out.status = "raise" /\ fmt.out.exc = "OverflowError: int too large to convert to float"

\* a negative value of the YB range that a float holds exactly was formatted
C19_Witness ==
    /\ fmt.stage = "done"
    /\ fmt.value.neg
    /\ ToDouble(fmt.value.mag) = fmt.value.mag
    /\ fmt.out.unit = "YB"
    /\ fmt.out.status = "return"


\* ---------------------------------------------------------------- profiling/memory.py: claim
\* C20: the controller of profiling/memory.py raises ProfilingNotStarted from
\* stop() and from snapshot() when tracing is not active, and refuses start()
\* when tracing is already active
C20_LegacyGuards ==
    \A t \in Threads :
        /\ (Done(t, "legacy_stop") /\ ~thr[t].entry_active) =>
              (thr[t].out.status = "raise" /\ thr[t].out.exc = NotStarted)
        /\ (Done(t, "legacy_snapshot") /\ ~thr[t].entry_active) =>
              (thr[t].out.status = "raise" /\ thr[t].out.exc = NotStarted)
        /\ (Done(t, "legacy_start") /\ thr[t].entry_active) =>
              thr[t].out.status = "raise"

\* ---------------------------------------------------------------- ZContainer: claim
\* the JSON objects of the components added, in the order they were added
AddedJson == [i \in 1..Len(zc.added) |-> to_json(zc.added[i])]

\* every key of a component added, with the value of the last one that has it
LastWins ==
    [k \in UNION {DOMAIN AddedJson[i] : i \in 1..Len(zc.added)} |->
        AddedJson[CHOOSE i \in 1..Len(zc.added) :
                     /\ k \in DOMAIN AddedJson[i]
                     /\ \A j \in (i + 1)..Len(zc.added) : k \notin DOMAIN AddedJson[j]][k]]

\* the HTML of the components added from the i-th on, in the order they were added
RECURSIVE AddedHtml(_)
AddedHtml(i) ==
    IF i > Len(zc.added) THEN <<>> ELSE to_html(zc.added[i]) \o AddedHtml(i + 1)

\* C21: after any sequence of add(component) and container |= component,
\* to_html() is the opening tag with the id of the container, the HTML of the
\* components in the order they were added, and the closing tag; to_json() is
\* the merge of their JSON, under the key id only when the id is not empty
C21_ContainerRenders ==
    LET c == zc.container
        id == IF c.id = NoId THEN "" ELSE c.id
    IN  /\ zc.html.done =>
              zc.html.value =
                  <<"<", c.tag, " id=\"", id, "\" class=\"container\">">>
                  \o AddedHtml(1) \o <<"</", c.tag, ">">>
        /\ zc.json.done =>
              IF id # ""
              THEN /\ DOMAIN zc.json.value = {id}
                   /\ zc.json.value[id].is = "obj"
                   /\ zc.json.value[id].obj = LastWins
              ELSE zc.json.value = LastWins

\* a container with an id rendered both ways after three components with a
\* common key were added, a container among them
C21_Witness ==
    /\ zc.html.done /\ zc.json.done
    /\ zc.container.id = "main"
    /\ Len(zc.added) = MaxChildren
    /\ zc.added[1] # zc.added[2]
    /\ \E i \in 1..MaxChildren : zc.added[i].kind = "container"
    /\ \E i, j \in 1..MaxChildren :
          i # j /\ "title" \in DOMAIN AddedJson[i] \cap DOMAIN AddedJson[j]

\* ---------------------------------------------------------------- controllers: claims
\* the thread executes a statement inside `with self._profiler_lock` of
\* start() or stop() (pyinstrument.py:91-99, 107-112)
InCritical(t) ==
    thr[t].pc \in {"cs_native", "cs_assign", "cs_unlock",
                   "cp_recheck", "cp_native", "cp_swap", "cp_unlock"}

\* the body of the thread's CPU scope is running
InCpuWorkload(t) == thr[t].op = "cpu_profile" /\ thr[t].pc = "work"

\* C22: while the body of a CPU scope runs its thread does not hold the lock,
\* which is held only inside start() and stop(): another caller waiting for
\* the lock finds it free, a start() of another caller that tests the active
\* session raises ProfilingAlreadyStarted at its test, without taking the lock
C22_LockFreeDuringWorkload ==
    /\ [](\A t \in Threads :
            /\ profiler_lock = t => InCritical(t)
            /\ InCpuWorkload(t) =>
                  /\ profiler_lock # t
                  /\ \A u \in Threads \ {t} :
                        thr[u].pc \in {"cs_lock", "cp_lock"} => profiler_lock = "free")
    /\ [][\A t \in Threads : \A u \in Threads \ {t} :
            (/\ InCpuWorkload(t)
             /\ is_profiling
             /\ thr[u].pc = "cs_check"
             /\ thr'[u].pc # "cs_check")
            => /\ thr'[u].out = Raised(AlreadyStarted)
               /\ profiler_lock' = profiler_lock]_vars

\* a stop() of another caller stopped and returned the profiler of a scope
\* whose body is still running
C22_Witness ==
    \E t \in Threads : \E u \in Threads \ {t} :
        /\ InCpuWorkload(t)
        /\ Done(u, "cpu_stop")
        /\ Succeeded(u)
        /\ thr[u].out.profiler = thr[t].profiler
        /\ profiler_lock = "free"

\* a start() entered on the IDLE session returned and the session is ACTIVE,
\* a stop() entered on the ACTIVE session returned and the session is IDLE,
\* whatever was called before
Reusable ==
    \A t \in Threads :
        /\ (Done(t, "cpu_start") /\ ~thr[t].entry_active) =>
              (Succeeded(t) /\ is_profiling /\ thr[t].out.profiler = curr_profiler)
        /\ (Done(t, "cpu_stop") /\ thr[t].entry_active) =>
              (Succeeded(t) /\ CpuIdle)
        /\ (Done(t, "mem_start") /\ ~thr[t].entry_active) =>
              (Succeeded(t) /\ tracing)
        /\ (Done(t, "mem_stop") /\ thr[t].entry_active) =>
              (Succeeded(t) /\ ~tracing)

\* C23, every controller IDLE at first: both sessions are IDLE before the
\* first call, and with a single caller start() succeeds whenever the session
\* is IDLE and stop() whenever it is ACTIVE, after any calls that succeeded
\* or failed
C23_StartsIdleReusable ==
    /\ calls = 0 => (CpuIdle /\ ~tracing)
    /\ Reusable

\* C23, the memory session as tracemalloc is at import: the CPU session is
\* IDLE before the first call, the memory session is IDLE unless tracemalloc
\* was switched on before the controller was made, and then it is ACTIVE; with
\* a single caller start() succeeds whenever the session is IDLE and stop()
\* whenever it is ACTIVE, after any calls that succeeded or failed
C23_Reusable ==
    /\ calls = 0 => (CpuIdle /\ tracing = boot.tracing)
    /\ Reusable

\* the session that was on at import was stopped, and a session of the
\* controller was started and stopped after it
C23_Witness ==
    /\ boot.tracing
    /\ Done("t1", "mem_stop")
    /\ Succeeded("t1")
    /\ thr["t1"].entry_origin = "controller"
    /\ ~tracing

\* C24: two stop() calls of the CPU controller, both issued while the session
\* that one start() had started is ACTIVE and nothing else called: exactly one
\* returns the profiler it stopped and the other raises ProfilingNotStarted,
\* pyinstrument's stop() was called once and the session is IDLE
C24_ExactlyOneCpuStop ==
    (/\ calls = 3
     /\ \A t \in Threads : Done(t, "cpu_stop") /\ thr[t].entry_active)
    => \E t \in Threads : \E u \in Threads \ {t} :
          /\ Succeeded(t) /\ thr[t].out.profiler # None
          /\ thr[t].events = <<"native_stop">>
          /\ thr[u].out = Raised(NotStarted)
          /\ thr[u].events = <<>>
          /\ CpuIdle

\* both calls were issued on the ACTIVE session; the one of t2 stopped it and
\* the one of t1 was refused
C24_Witness ==
    /\ calls = 3
    /\ \A t \in Threads : Done(t, "cpu_stop") /\ thr[t].entry_active
    /\ thr["t1"].out = Raised(NotStarted)
    /\ Succeeded("t2")
    /\ thr["t2"].out.profiler # None

\* C25: at most one pyinstrument profiler is running, and each one running is
\* the one in _curr_profiler or the one its start() is about to put there
\* under the lock: no running profiler is overwritten or lost
C25_NativeProfilersReachable ==
    /\ Cardinality(running) <= 1
    /\ \A p \in running :
          \/ p = curr_profiler
          \/ \E t \in Threads : thr[t].pc = "cs_assign" /\ thr[t].profiler = p

\* C26: the exit of a scope acts only on the session the scope started.  The
\* scope of the memory controller does not take its after-snapshot from, nor
\* stop, a tracing that is on after another caller stopped the scope's own;
\* the scope of the CPU controller, once the profiler its start() returned
\* has been stopped, stops no other profiler
C26_ExitStopsOwnSession ==
    [][\A t \in Threads :
          /\ (/\ thr[t].op = "mem_profile"
              /\ thr[t].phase = "exit_snap"
              /\ thr'[t].phase = "exit_stop") => ~thr[t].stale
          /\ (/\ thr[t].op = "mem_profile"
              /\ thr[t].pc = "st_stop"
              /\ thr'[t].pc = "done"
              /\ tracing) => ~thr[t].stale
          /\ (/\ thr[t].op = "cpu_profile"
              /\ thr[t].pc = "cp_native"
              /\ thr'[t].pc = "cp_swap")
             => (curr_profiler = thr[t].profiler \/ thr[t].profiler \in running)]_vars

\* C27: when the body of a scope raised an error, that error is the one the
\* caller of the scope gets, whatever the other callers did meanwhile
C27_WorkloadErrorSurvives ==
    \A t \in Threads :
        (/\ thr[t].op \in {"cpu_profile", "mem_profile"}
         /\ thr[t].pc = "done"
         /\ thr[t].pending = WorkloadError)
        => thr[t].out = Raised(WorkloadError)

\* what a session consists of: the CPU controller's handle and the native
\* profilers running, the memory tracer's switch and its settings
SessionState == <<curr_profiler, running, tracing, traceback_limit, origin>>

\* thread t executes a statement of its call
Acts(t) == thr'[t].pc # thr[t].pc

\* the step ends the call of t with one of the exceptions excs
FailsWith(t, excs) ==
    /\ Acts(t)
    /\ thr'[t].pc = "done"
    /\ thr'[t].out.status = "raise"
    /\ thr'[t].out.exc \in excs

\* C28: a start() that fails with ProfilingAlreadyStarted and a stop() or
\* snapshot() that fails with ProfilingNotStarted leave the session as it
\* was.  No statement such a call executes (its test, and for the CPU stop()
\* the acquisition of the lock and the repeated test) changes the handle, the
\* running native profilers or the tracer's switch and settings; a failed
\* memory start has run no garbage collection; a scope whose entry failed
\* ends there, without having reached its stop().
C28_FailedCallsLeaveSession ==
    [][\A t \in Threads :
          /\ FailsWith(t, {AlreadyStarted, AlreadyStartedEnv, NotStarted})
             => UNCHANGED SessionState
          /\ (Acts(t) /\ thr[t].pc \in {"cs_check", "ms_check", "sn_check", "st_check",
                                        "cp_check", "cp_lock", "cp_recheck"})
             => UNCHANGED SessionState
          /\ FailsWith(t, {AlreadyStarted, AlreadyStartedEnv})
             => /\ thr[t].pc \in {"cs_check", "ms_check"}
                /\ ~thr'[t].gc_ran
                /\ thr'[t].phase \in {"plain", "enter", "enter_start"}
                /\ thr'[t].events = <<>>]_vars

\* a scope was refused at its entry although it asked for a garbage
\* collection, and the session that was running is still on
C28_Witness ==
    \E t \in Threads :
        /\ Done(t, "mem_profile")
        /\ RaisedAlreadyStarted(t)
        /\ thr[t].phase = "enter_start"
        /\ ~thr[t].gc_ran
        /\ tracing
        /\ origin = "controller"

\* C29: the ProfilingAlreadyStarted that names the PYTHONTRACEMALLOC variable
\* is raised only by a start() that found the tracing switched on out of
\* band; a start() refused by a session that the controller's own start()
\* began raises the plain message.
C29_EnvMessageOnlyForEnvSession ==
    \A t \in Threads :
        (/\ thr[t].op \in {"mem_start", "mem_profile"}
         /\ thr[t].pc = "done"
         /\ RaisedAlreadyStarted(t))
        => /\ thr[t].out.exc = AlreadyStartedEnv => thr[t].entry_origin = "external"
           /\ thr[t].entry_origin = "controller" => thr[t].out.exc = AlreadyStarted

\* C30: start() and stop() of the CPU controller never return or raise with
\* the lock held, also when the native profiler raises inside the with
\* block; hence a thread that waits for the lock eventually holds it, and
\* every call that was issued eventually returns or raises.
C30_LockAlwaysReleased ==
    /\ [](\A t \in Threads : Free(t) => profiler_lock # t)
    /\ \A t \in Threads :
          /\ (thr[t].pc \in {"cs_lock", "cp_lock"}) ~> (profiler_lock = t)
          /\ (~Free(t)) ~> Free(t)

\* the native profiler raised inside the critical section of one thread and
\* the other thread holds the lock afterwards
C30_Witness ==
    /\ thr["t1"].pc = "done"
    /\ thr["t1"].out = Raised(NativeError)
    /\ profiler_lock = "t2"
====
